---------------------------- MODULE Spec2Model ----------------------------
(***************************************************************************)
(* Model of the query engine of gdp-analysis-engine: the configuration     *)
(* sanitizer (src/plugins/config_handler/handle.py and the older           *)
(* src/core/config_manager/config_handle.py), the wide->long transform,    *)
(* the row filters, the aggregators and the pipeline (src/core/engine.py)  *)
(* and the metadata extractor (src/core/metadata.py).                      *)
(*                                                                         *)
(* Python values are modelled as follows.  An Optional[T] is a sequence of *)
(* length <= 1: None is <<>> and a present value v is <<v>>.  A string is  *)
(* a TLA+ string; str.lower() and str.title() are tables over the strings  *)
(* the model uses.  A NaN cell is the absent Optional.  A call that raises *)
(* is recorded with the exception's class name and no return value.        *)
(***************************************************************************)
EXTENDS Integers, Sequences, FiniteSets, TLC

VARIABLES
    config,      \* the QueryConfig object handed to the sanitizer
    regions,     \* the known regions handed to the sanitizer
    year_range,  \* <<min_year, max_year>> handed to the sanitizer
    calls,       \* log of the sanitizer calls made so far
    wide,        \* the wide table handed to the engine
    long,        \* the long table handed to the filters
    query,       \* the filters handed to the pipeline
    engine       \* log of the engine calls made so far

vars == <<config, regions, year_range, calls, wide, long, query, engine>>

---------------------------------------------------------------------------
(* Bounds of the model *)

\* number of years between the smallest and the largest dataset year
MaxYearSpan == 2
\* number of sanitizer calls chained on one configuration object
MaxCalls == 2
\* number of rows of an input table
MaxRows == 2

---------------------------------------------------------------------------
(* Optional values and strings *)

None == <<>>
Some(v) == <<v>>
IsNone(o) == o = <<>>
Val(o) == o[1]

\* str.lower() on the strings of the model
Lower(s) ==
    CASE s = "Asia" -> "asia"
      [] s = "ASIA" -> "asia"
      [] s = "Europe" -> "europe"
      [] s = "EUROPE" -> "europe"
      [] s = "Mars" -> "mars"
      [] s = "Germany" -> "germany"
      [] s = "GERMANY" -> "germany"
      [] s = "Japan" -> "japan"
      [] s = "JAPAN" -> "japan"
      [] s = "Wakanda" -> "wakanda"
      [] s = "SUM" -> "sum"
      [] s = "Sum" -> "sum"
      [] s = "AVG" -> "avg"
      [] s = "Average" -> "average"
      [] s = "Median" -> "median"
      [] OTHER -> s

\* Python truthiness of an Optional[str]: None and "" are falsy
Falsy(o) == IsNone(o) \/ Val(o) = ""

\* the elements of a sequence
Range(seq) == {seq[i] : i \in 1..Len(seq)}

---------------------------------------------------------------------------
(* QueryConfig: src/plugins/config_handler/config_models.py *)

QueryConfig(region, country, startYear, endYear, operation) ==
    [region |-> region, country |-> country, startYear |-> startYear,
     endYear |-> endYear, operation |-> operation]

\* a plain @dataclass: assigning to a field changes the object
QueryConfigNotFrozen == FALSE

\* @dataclass(frozen=True): assigning to a field raises FrozenInstanceError
QueryConfigFrozen == TRUE

\* dataclasses.replace(config, region=, startYear=, endYear=, operation=)
Replace(cfg, region, startYear, endYear, operation) ==
    [cfg EXCEPT !.region = region, !.startYear = startYear,
                !.endYear = endYear, !.operation = operation]

---------------------------------------------------------------------------
(* The sanitizer of src/plugins/config_handler/handle.py *)

\* _sanitize_region comparing the spellings as given
_sanitize_region_exact(region, valid_regions) ==
    IF Falsy(region) THEN None
    ELSE IF Val(region) \notin Range(valid_regions) THEN None ELSE region

_sanitize_region(region, valid_regions) ==
    IF Falsy(region) THEN None
    ELSE LET valid_set == {Lower(r) : r \in Range(valid_regions)}
         IN  IF Lower(Val(region)) \notin valid_set THEN None ELSE region

_sanitize_years(start, end, yr) ==
    LET min_year == yr[1]
        max_year == yr[2]
        validated_start ==
            IF ~IsNone(start) /\ Val(start) < min_year THEN None ELSE start
        validated_end ==
            IF ~IsNone(end) /\ Val(end) > max_year THEN None ELSE end
    IN  IF /\ ~IsNone(validated_start)
           /\ ~IsNone(validated_end)
           /\ Val(validated_end) < Val(validated_start)
        THEN <<None, None>>
        ELSE <<validated_start, validated_end>>

_sanitize_operation(operation) ==
    IF Falsy(operation) THEN None
    ELSE IF Lower(Val(operation)) \notin {"sum", "avg", "average"} THEN None
    ELSE operation

\* returns the outcome of the call: the value returned, the exception
\* raised ("" when none) and the state of the argument object afterwards
_sanatize_query_config(cfg, rs, yr) ==
    LET region == _sanitize_region(cfg.region, rs)
        years == _sanitize_years(cfg.startYear, cfg.endYear, yr)
        operation == _sanitize_operation(cfg.operation)
    IN  [ret |-> Some(Replace(cfg, region, years[1], years[2], operation)),
         exc |-> "",
         after |-> cfg]

---------------------------------------------------------------------------
(* The sanitizer of src/core/config_manager/config_handle.py *)

sanatize_query_config(cfg, rs, yr) ==
    LET validated_region ==
            IF ~Falsy(cfg.region)
               /\ Lower(Val(cfg.region)) \notin {Lower(r) : r \in Range(rs)}
            THEN None ELSE cfg.region
        validated_startYear ==
            IF ~IsNone(cfg.startYear) /\ Val(cfg.startYear) < yr[1]
            THEN None ELSE cfg.startYear
        validated_endYear ==
            IF ~IsNone(cfg.endYear) /\ Val(cfg.endYear) > yr[2]
            THEN None ELSE cfg.endYear
        validated_operation ==
            IF ~Falsy(cfg.operation)
               /\ Lower(Val(cfg.operation)) \notin {"sum", "avg", "average"}
            THEN None ELSE cfg.operation
        \* config.startYear = None; config.endYear = None
        assigned == [cfg EXCEPT !.startYear = None, !.endYear = None]
    IN  IF IsNone(cfg.endYear) \/ IsNone(cfg.startYear)
        THEN \* config.endYear < config.startYear with a None operand
             [ret |-> None, exc |-> "TypeError", after |-> cfg]
        ELSE IF Val(cfg.endYear) < Val(cfg.startYear) /\ QueryConfigFrozen
        THEN [ret |-> None, exc |-> "FrozenInstanceError", after |-> cfg]
        ELSE LET now == IF Val(cfg.endYear) < Val(cfg.startYear)
                        THEN assigned ELSE cfg
             IN  [ret |-> Some(Replace(now, validated_region,
                                       validated_startYear, validated_endYear,
                                       validated_operation)),
                  exc |-> "",
                  after |-> now]

---------------------------------------------------------------------------
(* Inputs of the sanitizer *)

\* the years of a dataset, and the years a user may ask for: one year below
\* and one above the span as well
DataYears == 2000..(2000 + MaxYearSpan)
YearInputs == {None} \cup {Some(y) : y \in (2000 - 1)..(2000 + MaxYearSpan + 1)}
YearRanges == {<<a, b>> : a \in DataYears, b \in DataYears} \ 
              {<<a, b>> \in DataYears \X DataYears : b < a}

RegionInputs == {None, Some(""), Some("Asia"), Some("asia"), Some("Mars")}
RegionLists == {<<>>, <<"Asia", "Europe">>}
CountryInputs == {None, Some("Germany")}
OperationInputs ==
    {None, Some(""), Some("sum"), Some("SUM"), Some("avg"), Some("Average"),
     Some("median")}

QueryConfigs ==
    {QueryConfig(r, c, s, e, o) :
        r \in RegionInputs, c \in CountryInputs, s \in YearInputs,
        e \in YearInputs, o \in OperationInputs}

NoTable == [columns |-> <<>>, rows |-> <<>>]
NoQuery == QueryConfig(None, None, None, None, None)

---------------------------------------------------------------------------
(* The sanitizer as a state machine: a caller holds one QueryConfig object *)
(* and calls either sanitizer on it, possibly feeding the result back in.  *)

Init ==
    /\ config \in QueryConfigs
    /\ regions \in RegionLists
    /\ year_range \in YearRanges
    /\ calls = <<>>
    /\ wide = NoTable
    /\ long = <<>>
    /\ query = NoQuery
    /\ engine = <<>>

Logged(fn, r) ==
    [fn |-> fn, arg |-> config, ret |-> r.ret, exc |-> r.exc, after |-> r.after]

\* handle._sanatize_query_config(config, regions, year_range)
CallHandleSanitizer ==
    /\ Len(calls) < MaxCalls
    /\ LET r == _sanatize_query_config(config, regions, year_range)
       IN  /\ calls' = Append(calls, Logged("handle", r))
           /\ config' = r.after
    /\ UNCHANGED <<regions, year_range, wide, long, query, engine>>

\* config_handle.sanatize_query_config(config, regions, year_range)
CallConfigHandleSanitizer ==
    /\ Len(calls) < MaxCalls
    /\ LET r == sanatize_query_config(config, regions, year_range)
       IN  /\ calls' = Append(calls, Logged("config_handle", r))
           /\ config' = r.after
    /\ UNCHANGED <<regions, year_range, wide, long, query, engine>>

\* the caller passes the QueryConfig it got back to the next call
Resubmit ==
    /\ calls # <<>>
    /\ Len(calls) < MaxCalls
    /\ calls[Len(calls)].exc = ""
    /\ config' = Val(calls[Len(calls)].ret)
    /\ UNCHANGED <<regions, year_range, calls, wide, long, query, engine>>

Next == CallHandleSanitizer \/ CallConfigHandleSanitizer \/ Resubmit

Spec == Init /\ [][Next]_vars

---------------------------------------------------------------------------
(* Properties of the sanitizer *)

Ok(c) == c.exc = ""
HandleCalls == {i \in 1..Len(calls) : calls[i].fn = "handle"}
\* call i+1 is a call of the same sanitizer on the value call i returned
Chained(i) ==
    /\ i + 1 <= Len(calls)
    /\ Ok(calls[i])
    /\ calls[i + 1].fn = calls[i].fn
    /\ calls[i + 1].arg = Val(calls[i].ret)

KnownRegion(o, rs) ==
    ~IsNone(o) /\ \E r \in Range(rs) : Lower(r) = Lower(Val(o))
KnownOperation(o) ==
    ~IsNone(o) /\ \E op \in {"sum", "avg", "average"} : Lower(Val(o)) = op

\* C1: sanitizing the result of a sanitization returns that result again,
\* field by field, whichever sanitizer is used
C1_Idempotent ==
    \A i \in 1..Len(calls) :
        Chained(i) => Ok(calls[i + 1]) /\ calls[i + 1].ret = calls[i].ret

\* C2: no call of a sanitizer raises: each returns a QueryConfig
C2_NeverRaises ==
    \A i \in 1..Len(calls) : Ok(calls[i]) /\ ~IsNone(calls[i].ret)

\* C3: when startYear and endYear are both present and endYear < startYear,
\* the output of handle's sanitizer has startYear = None and endYear = None,
\* whatever the year range is
C3_YearOrderingRule ==
    \A i \in HandleCalls :
        LET a == calls[i].arg
        IN  (/\ ~IsNone(a.startYear)
             /\ ~IsNone(a.endYear)
             /\ Val(a.endYear) < Val(a.startYear))
            => /\ Ok(calls[i])
               /\ IsNone(Val(calls[i].ret).startYear)
               /\ IsNone(Val(calls[i].ret).endYear)

InRange(o) == IsNone(o) \/ (year_range[1] <= Val(o) /\ Val(o) <= year_range[2])

\* C4: every QueryConfig a sanitizer returns is in bounds and validated:
\* years inside [min_year, max_year], startYear <= endYear, region known,
\* operation one of sum / avg / average
C4_OutputInBounds ==
    \A i \in 1..Len(calls) :
        Ok(calls[i]) =>
            LET out == Val(calls[i].ret)
            IN  /\ InRange(out.startYear)
                /\ InRange(out.endYear)
                /\ (~IsNone(out.startYear) /\ ~IsNone(out.endYear))
                       => Val(out.startYear) <= Val(out.endYear)
                /\ IsNone(out.region) \/ KnownRegion(out.region, regions)
                /\ IsNone(out.operation) \/ KnownOperation(out.operation)

\* C5: handle's sanitizer keeps region, spelled as given, iff it equals a
\* known region ignoring case, keeps operation, spelled as given, iff it
\* equals sum, avg or average ignoring case, and returns None otherwise
C5_StringFields ==
    \A i \in HandleCalls :
        LET a == calls[i].arg
            out == Val(calls[i].ret)
        IN  /\ Ok(calls[i])
            /\ out.region =
                   IF KnownRegion(a.region, regions) THEN a.region ELSE None
            /\ out.operation =
                   IF KnownOperation(a.operation) THEN a.operation ELSE None

\* a region and an operation spelled in another case than the known ones
\* were kept as spelled, in a call that also reset nothing else
C5_Witness ==
    \E i \in HandleCalls :
        /\ calls[i].arg.region = Some("asia")
        /\ calls[i].arg.operation = Some("SUM")
        /\ Val(calls[i].ret).region = Some("asia")
        /\ Val(calls[i].ret).operation = Some("SUM")
        /\ "asia" \notin Range(regions)

\* C6: a call of a sanitizer leaves the QueryConfig object it was given with
\* the field values it had before the call, and what it returns is built by
\* replace(), also when fields are reset
C6_InputUnchanged ==
    \A i \in 1..Len(calls) : calls[i].after = calls[i].arg

\* a call that reset fields (the result differs from the argument) has run
C6_Witness ==
    \E i \in 1..Len(calls) :
        /\ Ok(calls[i])
        /\ Val(calls[i].ret).region # calls[i].arg.region
        /\ Val(calls[i].ret).startYear # calls[i].arg.startYear
        /\ calls[i].after = calls[i].arg

---------------------------------------------------------------------------
(* Tables.  A DataFrame is a record of its column names, in order, and its *)
(* rows, in order; a row is a function from column name to cell.  A long   *)
(* table, whose columns are fixed, is the sequence of its rows.            *)

\* id_vars of transform(), in the order melt() is given them
IdCols ==
    <<"Country Name", "Continent", "Indicator Name", "Indicator Code",
      "Country Code">>
LongCols == Range(IdCols) \cup {"Year", "Value"}

\* int(s) on a column name: the number, or None where int() raises ValueError
ParseInt(s) ==
    CASE s = "1999" -> Some(1999)
      [] s = "2000" -> Some(2000)
      [] s = "2001" -> Some(2001)
      [] s = "2002" -> Some(2002)
      [] s = "2003" -> Some(2003)
      [] s = "2004" -> Some(2004)
      [] s = "2005" -> Some(2005)
      [] s = "2025" -> Some(2025)
      [] s = "-100" -> Some(-100)
      [] OTHER -> None

\* str.isdigit() on a column name
IsDigit(s) ==
    s \in {"1999", "2000", "2001", "2002", "2003", "2004", "2005", "2025"}

\* DataFrame.melt(id_vars=IdCols, var_name="Year", value_name="Value"):
\* every column that is not an id_var is a value column; the result holds,
\* value column after value column, one row per input row
Melt(df) ==
    LET value_vars == SelectSeq(df.columns, LAMBDA c : c \notin Range(IdCols))
        n == Len(df.rows)
        k == Len(value_vars)
    IN  [p \in 1..(n * k) |->
            LET j == ((p - 1) \div n) + 1
                i == ((p - 1) % n) + 1
            IN  [c \in LongCols |->
                    IF c = "Year" THEN value_vars[j]
                    ELSE IF c = "Value" THEN df.rows[i][value_vars[j]]
                    ELSE df.rows[i][c]]]

\* transform() dropping the rows whose cell is missing
transform_dropna(df) ==
    IF \E c \in Range(IdCols) : c \notin Range(df.columns)
    THEN [ret |-> None, exc |-> "KeyError"]
    ELSE LET melted == SelectSeq(Melt(df), LAMBDA r : ~IsNone(r["Value"]))
         IN  IF \E p \in 1..Len(melted) : IsNone(ParseInt(melted[p]["Year"]))
             THEN [ret |-> None, exc |-> "ValueError"]
             ELSE [ret |-> Some([p \in 1..Len(melted) |->
                              [melted[p] EXCEPT !["Year"] = Val(ParseInt(@))]]),
                   exc |-> ""]

\* engine.transform(df): melt, then Year.astype(int)
transform(df) ==
    IF \E c \in Range(IdCols) : c \notin Range(df.columns)
    THEN [ret |-> None, exc |-> "KeyError"]
    ELSE LET melted == Melt(df)
         IN  IF \E p \in 1..Len(melted) : IsNone(ParseInt(melted[p]["Year"]))
             THEN [ret |-> None, exc |-> "ValueError"]
             ELSE [ret |-> Some([p \in 1..Len(melted) |->
                              [melted[p] EXCEPT !["Year"] = Val(ParseInt(@))]]),
                   exc |-> ""]

\* Series.between(left, right), inclusive on both sides
Between(y, left, right) == left <= y /\ y <= right

\* _filter_by_year reading a lone start as a lower bound
_filter_by_year_from_start(df, start, end) ==
    IF IsNone(start) /\ IsNone(end) THEN df
    ELSE IF IsNone(end)
    THEN SelectSeq(df, LAMBDA r : r["Year"] >= Val(start))
    ELSE IF IsNone(start)
    THEN SelectSeq(df, LAMBDA r : r["Year"] = Val(end))
    ELSE SelectSeq(df, LAMBDA r : Between(r["Year"], Val(start), Val(end)))

\* engine._filter_by_year(df, start, end)
_filter_by_year(df, start, end) ==
    IF IsNone(start) /\ IsNone(end) THEN df
    ELSE IF IsNone(end)
    THEN SelectSeq(df, LAMBDA r : r["Year"] = Val(start))
    ELSE IF IsNone(start)
    THEN SelectSeq(df, LAMBDA r : r["Year"] = Val(end))
    ELSE SelectSeq(df, LAMBDA r : Between(r["Year"], Val(start), Val(end)))

\* a region filter that gives the table back when no row matches
_filter_by_region_or_all(df, region) ==
    IF IsNone(region) THEN df
    ELSE LET kept == SelectSeq(df, LAMBDA r :
                         Lower(r["Continent"]) = Lower(Val(region)))
         IN  IF kept = <<>> THEN df ELSE kept

\* a region filter comparing the spellings as given
_filter_by_region_cased(df, region) ==
    IF IsNone(region) THEN df
    ELSE SelectSeq(df, LAMBDA r : r["Continent"] = Val(region))

\* engine._filter_by_region(df, region)
_filter_by_region(df, region) ==
    IF IsNone(region) THEN df
    ELSE SelectSeq(df, LAMBDA r : Lower(r["Continent"]) = Lower(Val(region)))

\* engine._filter_by_country(df, country)
_filter_by_country(df, country) ==
    IF IsNone(country) THEN df
    ELSE SelectSeq(df, LAMBDA r : Lower(r["Country Name"]) = Lower(Val(country)))

\* a dropna that removes nothing
DropNaNothing(df) == df

\* DataFrame.dropna(subset=["Value"])
DropNaValue(df) == SelectSeq(df, LAMBDA r : ~IsNone(r["Value"]))

\* group_cols of aggregate_all, in the order groupby() is given them
GroupCols ==
    <<"Country Name", "Country Code", "Indicator Name", "Indicator Code",
      "Continent">>

\* the position of a string of the model in Python's string order
StrRank(s) ==
    CASE s = "Asia" -> 1
      [] s = "DE" -> 2
      [] s = "Europe" -> 3
      [] s = "GDP" -> 4
      [] s = "Germany" -> 5
      [] s = "JP" -> 6
      [] s = "Japan" -> 7
      [] s = "NY.GDP" -> 8

GroupKey(r) == [i \in 1..Len(GroupCols) |-> r[GroupCols[i]]]
KeyLess(a, b) ==
    \E i \in 1..Len(GroupCols) :
        /\ \A j \in 1..(i - 1) : a[j] = b[j]
        /\ StrRank(a[i]) < StrRank(b[i])

\* the group keys of df in sorted order (groupby sorts its groups)
SortedKeys(df) ==
    LET K == {GroupKey(r) : r \in Range(df)}
    IN  CHOOSE f \in [1..Cardinality(K) -> K] :
            \A a, b \in 1..Cardinality(K) : a < b => KeyLess(f[a], f[b])

\* the Values of the rows of a group that are not NaN
GroupValues(df, key) ==
    LET rows == SelectSeq(df, LAMBDA r : GroupKey(r) = key /\ ~IsNone(r["Value"]))
    IN  [i \in 1..Len(rows) |-> Val(rows[i]["Value"])]

RECURSIVE SumSeq(_)
SumSeq(xs) == IF xs = <<>> THEN 0 ELSE xs[1] + SumSeq(Tail(xs))

RECURSIVE Gcd(_, _)
Gcd(a, b) == IF b = 0 THEN a ELSE Gcd(b, a % b)

\* the number num / den, with den > 0, in lowest terms
Rational(num, den) ==
    LET g == Gcd(IF num < 0 THEN -num ELSE num, den)
    IN  [num |-> num \div g, den |-> den \div g]

\* GroupBy.count(): the number of values that are not NaN
GroupCount(xs) == Some(Rational(Len(xs), 1))
\* GroupBy.sum(): NaN is skipped, an empty group sums to 0
GroupSum(xs) == Some(Rational(SumSeq(xs), 1))
\* a mean that is not divided by the number of values
GroupMeanUndivided(xs) == Some(Rational(SumSeq(xs), 1))
\* GroupBy.mean(): NaN is skipped, the mean of nothing is NaN
GroupMean(xs) ==
    IF xs = <<>> THEN None ELSE Some(Rational(SumSeq(xs), Len(xs)))

\* df.groupby(group_cols, as_index=False)["Value"].<reduce>().assign(Operation=label)
Grouped(df, useSum, label) ==
    LET keys == SortedKeys(df)
    IN  [g \in 1..Len(keys) |->
            [c \in Range(GroupCols) \cup {"Value", "Operation"} |->
                IF c = "Value"
                THEN IF useSum THEN GroupSum(GroupValues(df, keys[g]))
                     ELSE GroupMean(GroupValues(df, keys[g]))
                ELSE IF c = "Operation" THEN label
                ELSE LET i == CHOOSE i \in 1..Len(GroupCols) : GroupCols[i] = c
                     IN  keys[g][i]]]

\* engine.aggregate_all(df, operation)
aggregate_all(df, operation) ==
    LET op == IF IsNone(operation) THEN "avg" ELSE Lower(Val(operation))
    IN  IF op = "sum" THEN Grouped(df, TRUE, "Sum")
        ELSE IF op \in {"avg", "average"} THEN Grouped(df, FALSE, "Average")
        ELSE df

\* engine.run_pipeline(df, filters, inLongFormat)
run_pipeline(df, filters, inLongFormat) ==
    LET t == transform(df)
    IN  IF t.exc # "" THEN t
        ELSE LET byRegion == _filter_by_region(Val(t.ret), filters.region)
                 byCountry == _filter_by_country(byRegion, filters.country)
                 byYear == _filter_by_year(byCountry, filters.startYear,
                                           filters.endYear)
                 d == DropNaValue(byYear)
             IN  [ret |-> Some(IF inLongFormat THEN d
                               ELSE aggregate_all(d, filters.operation)),
                  exc |-> ""]

---------------------------------------------------------------------------
(* The metadata extractor: src/core/metadata.py *)

DEFAULT_YEAR_MIN == 1960
DEFAULT_YEAR_MAX == 2024
DEFAULT_YEAR_RANGE == <<DEFAULT_YEAR_MIN, DEFAULT_YEAR_MAX>>

\* str.title() on the strings of the model
Title(s) ==
    CASE s = "asia" -> "Asia"
      [] s = "ASIA" -> "Asia"
      [] s = "europe" -> "Europe"
      [] s = "EUROPE" -> "Europe"
      [] s = "germany" -> "Germany"
      [] s = "GERMANY" -> "Germany"
      [] s = "japan" -> "Japan"
      [] s = "JAPAN" -> "Japan"
      [] OTHER -> s

\* extract_column(df, column) on a long table: the cells of the column, or
\* an empty Series when the table has no such column
extract_column(df, column) ==
    IF df = <<>> THEN <<>>
    ELSE IF column \notin DOMAIN df[1] THEN <<>>
    ELSE [i \in 1..Len(df) |-> df[i][column]]

\* Series.unique(): the values in order of first appearance
RECURSIVE Unique(_)
Unique(xs) ==
    IF xs = <<>> THEN <<>>
    ELSE LET init == Unique(SubSeq(xs, 1, Len(xs) - 1))
             x == xs[Len(xs)]
         IN  IF x \in Range(init) THEN init ELSE Append(init, x)

\* the missing value (NaN / None) of a column of strings
NaN == "<NaN>"

\* Series.dropna() on a column of strings
dropna(series) == SelectSeq(series, LAMBDA x : x # NaN)

\* normalize_strings without the dropna
normalize_strings_keep_nan(series) ==
    Unique([i \in 1..Len(series) |-> Title(series[i])])

\* normalize_strings(series):
\* series.dropna().astype(str).str.title().unique().tolist()
normalize_strings(series) ==
    Unique([i \in 1..Len(dropna(series)) |-> Title(dropna(series)[i])])

get_all_regions(df) == normalize_strings(extract_column(df, "Continent"))

\* a year range made of the year of the first row only
get_year_range_of_first_row(df) ==
    LET years == extract_column(df, "Year")
    IN  IF years = <<>> THEN DEFAULT_YEAR_RANGE ELSE <<years[1], years[1]>>

\* get_year_range(df), for a Year column of numbers
get_year_range(df) ==
    LET years == Range(extract_column(df, "Year"))
    IN  IF years = {} THEN DEFAULT_YEAR_RANGE
        ELSE <<CHOOSE y \in years : \A z \in years : y <= z,
               CHOOSE y \in years : \A z \in years : z <= y>>

get_valid_attr(df) == <<get_all_regions(df), get_year_range(df)>>

---------------------------------------------------------------------------
(* Inputs of the engine *)

\* the name of the column of year y
YearColumn(y) ==
    CASE y = 1999 -> "1999"
      [] y = 2000 -> "2000"
      [] y = 2001 -> "2001"
      [] y = 2002 -> "2002"
      [] y = 2003 -> "2003"
      [] y = 2004 -> "2004"
      [] y = 2005 -> "2005"
      [] y = 2025 -> "2025"

\* the identifier fields of two (country, indicator) records
Entities ==
    {[c \in Range(IdCols) |->
        CASE c = "Country Name" -> "Germany"
          [] c = "Continent" -> "Europe"
          [] c = "Indicator Name" -> "GDP"
          [] c = "Indicator Code" -> "NY.GDP"
          [] c = "Country Code" -> "DE"],
     [c \in Range(IdCols) |->
        CASE c = "Country Name" -> "Japan"
          [] c = "Continent" -> "Asia"
          [] c = "Indicator Name" -> "GDP"
          [] c = "Indicator Code" -> "NY.GDP"
          [] c = "Country Code" -> "JP"]}

\* the elements of a set of numbers in increasing order
Sorted(S) ==
    CHOOSE f \in [1..Cardinality(S) -> S] :
        \A a, b \in 1..Cardinality(S) : a < b => f[a] < f[b]

\* identifier columns present: all five, all but Continent, Country Name only
IdLayouts ==
    {IdCols,
     <<"Country Name", "Indicator Name", "Indicator Code", "Country Code">>,
     <<"Country Name">>}
YearLayouts ==
    {[i \in 1..Cardinality(S) |-> YearColumn(Sorted(S)[i])] : S \in SUBSET DataYears}
ExtraLayouts == {<<>>, <<"Notes">>}
ColumnLayouts ==
    {ids \o ys \o ex : ids \in IdLayouts, ys \in YearLayouts, ex \in ExtraLayouts}

WideCells == {None, Some(1)}
WideRows(cols) ==
    {[c \in Range(cols) |->
        IF c \in Range(IdCols) THEN e[c]
        ELSE IF IsDigit(c) THEN cells[c]
        ELSE None] :
     e \in Entities, cells \in [{c \in Range(cols) : IsDigit(c)} -> WideCells]}
\* df is a wide table of the model: a column layout and up to MaxRows rows
IsWideTable(df) ==
    \E cols \in ColumnLayouts : \E n \in 0..MaxRows :
        \E rows \in [1..n -> WideRows(cols)] :
            df = [columns |-> cols, rows |-> rows]

LongCells == {None, Some(1), Some(2)}
LongRows ==
    {[c \in LongCols |->
        IF c = "Year" THEN y ELSE IF c = "Value" THEN v ELSE e[c]] :
     e \in Entities, y \in DataYears, v \in LongCells}
\* df is a long table of the model: up to MaxRows rows
IsLongTable(df) == \E n \in 0..MaxRows : df \in [1..n -> LongRows]

SanitizerIdle ==
    /\ config = NoQuery
    /\ regions = <<>>
    /\ year_range = <<2000, 2000 + MaxYearSpan>>
    /\ calls = <<>>

---------------------------------------------------------------------------
(* transform() applied to a wide table *)

InitTransform ==
    /\ SanitizerIdle
    /\ IsWideTable(wide)
    /\ long = <<>>
    /\ query = NoQuery
    /\ engine = <<>>

Transform ==
    /\ engine = <<>>
    /\ LET r == transform(wide)
       IN  /\ engine' = <<[fn |-> "transform", args |-> <<>>,
                           ret |-> r.ret, exc |-> r.exc]>>
           /\ long' = IF r.exc = "" THEN Val(r.ret) ELSE long
    /\ UNCHANGED <<config, regions, year_range, calls, wide, query>>

NextTransform == Transform

SpecTransform == InitTransform /\ [][NextTransform]_vars

---------------------------------------------------------------------------
(* The row filters applied to a long table *)

InitFilter ==
    /\ SanitizerIdle
    /\ wide = NoTable
    /\ IsLongTable(long)
    /\ query = NoQuery
    /\ engine = <<>>

FilterByYear ==
    /\ engine = <<>>
    /\ \E start \in YearInputs, end \in YearInputs :
          engine' = <<[fn |-> "_filter_by_year", args |-> <<start, end>>,
                       ret |-> Some(_filter_by_year(long, start, end)),
                       exc |-> ""]>>
    /\ UNCHANGED <<config, regions, year_range, calls, wide, long, query>>

NextFilter == FilterByYear

SpecFilter == InitFilter /\ [][NextFilter]_vars

---------------------------------------------------------------------------
(* Properties of transform() and of the year filter *)

HasIdCols(df) == \A c \in Range(IdCols) : c \in Range(df.columns)
\* the columns of df whose name is all digits, in column order
YearCols(df) == SelectSeq(df.columns, IsDigit)
OnlyYearCols(df) ==
    \A c \in Range(df.columns) : c \in Range(IdCols) \/ IsDigit(c)

\* the output of transform() holds, for each year column and each row of
\* df, one row with the identifier fields, the year and the cell
IsLongFormOf(out, df) ==
    LET n == Len(df.rows)
        ycols == YearCols(df)
    IN  /\ Len(out) = n * Len(ycols)
        /\ \A i \in 1..n : \A j \in 1..Len(ycols) :
              LET r == out[(j - 1) * n + i]
              IN  /\ \A c \in Range(IdCols) : r[c] = df.rows[i][c]
                  /\ r["Year"] = Val(ParseInt(ycols[j]))
                  /\ r["Value"] = df.rows[i][ycols[j]]

TransformCalls == {i \in 1..Len(engine) : engine[i].fn = "transform"}

\* C8 as stated: for every wide table with the five identifier columns, n
\* rows and k columns whose name is all digits, transform returns n*k rows,
\* one per (row, year column)
C8_RowCountAnyColumns ==
    \A i \in TransformCalls :
        HasIdCols(wide) =>
            /\ engine[i].exc = ""
            /\ IsLongFormOf(Val(engine[i].ret), wide)

\* C8 amended: the same, for the wide tables all of whose other columns
\* have an all-digit name
C8_RowCount ==
    \A i \in TransformCalls :
        (HasIdCols(wide) /\ OnlyYearCols(wide)) =>
            /\ engine[i].exc = ""
            /\ IsLongFormOf(Val(engine[i].ret), wide)

\* transform has returned MaxRows * 2 rows for a table of MaxRows rows and
\* two year columns that holds a missing cell
C8_Witness ==
    \E i \in TransformCalls :
        /\ HasIdCols(wide) /\ OnlyYearCols(wide)
        /\ Len(wide.rows) = MaxRows
        /\ Len(YearCols(wide)) = 2
        /\ \E r \in Range(wide.rows) : \E c \in Range(YearCols(wide)) : IsNone(r[c])
        /\ engine[i].exc = ""
        /\ Len(Val(engine[i].ret)) = MaxRows * 2

\* C9: when one of the five identifier columns is absent, transform fails
\* with the engine's schema error and returns no table
C9_SchemaError ==
    \A i \in TransformCalls :
        ~HasIdCols(wide) =>
            /\ engine[i].exc \in {"SchemaError", "EngineError"}
            /\ IsNone(engine[i].ret)

\* the rows the year filter is to keep
YearKept(y, start, end) ==
    CASE ~IsNone(start) /\ ~IsNone(end) -> Val(start) <= y /\ y <= Val(end)
      [] ~IsNone(start) /\ IsNone(end) -> y = Val(start)
      [] IsNone(start) /\ ~IsNone(end) -> y = Val(end)
      [] OTHER -> TRUE

YearFilterCalls == {i \in 1..Len(engine) : engine[i].fn = "_filter_by_year"}

\* C10: the year filter returns exactly the rows with start <= Year <= end
\* when both are given, with Year = start when only start is given, with
\* Year = end when only end is given, and every row when neither is given
C10_YearFilter ==
    \A i \in YearFilterCalls :
        LET start == engine[i].args[1]
            end == engine[i].args[2]
        IN  /\ engine[i].exc = ""
            /\ Val(engine[i].ret) =
                   SelectSeq(long, LAMBDA r : YearKept(r["Year"], start, end))

\* a lone start dropped a row of a later year and kept the row of that year
C10_Witness ==
    \E i \in YearFilterCalls :
        /\ ~IsNone(engine[i].args[1])
        /\ IsNone(engine[i].args[2])
        /\ \E r \in Range(long) : r["Year"] > Val(engine[i].args[1])
        /\ Len(Val(engine[i].ret)) = 1
        /\ Val(engine[i].ret)[1]["Year"] = Val(engine[i].args[1])

---------------------------------------------------------------------------
(* A raw query sanitized against a dataset and then run through the      *)
(* pipeline: _sanatize_query_config followed by run_pipeline             *)

MaxQueryRows == 1
MaxQueryYearCols == 2

\* wide tables with all five identifier columns and a few year columns
QueryYearLayouts == {ys \in YearLayouts : Len(ys) <= MaxQueryYearCols}
IsQueryTable(df) ==
    \E ys \in QueryYearLayouts : \E n \in 0..MaxQueryRows :
        \E rows \in [1..n -> WideRows(IdCols \o ys)] :
            df = [columns |-> IdCols \o ys, rows |-> rows]

\* raw filter sets: each field absent, valid for some dataset, or invalid
RawQueries ==
    {QueryConfig(r, c, s, e, op) :
        r \in {None, Some("asia"), Some("Mars")},
        c \in {None, Some("japan"), Some("Wakanda")},
        s \in YearInputs, e \in YearInputs,
        op \in {None, Some("SUM"), Some("median")}}

InitQuery ==
    /\ SanitizerIdle
    /\ IsQueryTable(wide)
    /\ long = <<>>
    /\ query \in RawQueries
    /\ engine = <<>>

\* the raw query is sanitized against the regions and the year range of
\* the long form of the dataset
SanitizeQuery ==
    /\ calls = <<>>
    /\ LET t == transform(wide)
       IN  /\ t.exc = ""
           /\ LET attr == get_valid_attr(Val(t.ret))
                  r == _sanatize_query_config(query, attr[1], attr[2])
              IN  /\ long' = Val(t.ret)
                  /\ regions' = attr[1]
                  /\ year_range' = attr[2]
                  /\ config' = Val(r.ret)
                  /\ calls' = <<[fn |-> "handle", arg |-> query, ret |-> r.ret,
                                 exc |-> r.exc, after |-> r.after]>>
    /\ UNCHANGED <<wide, query, engine>>

\* the pipeline is run on the dataset with the sanitized query
RunPipeline ==
    /\ calls # <<>>
    /\ engine = <<>>
    /\ \E inLongFormat \in BOOLEAN :
          LET r == run_pipeline(wide, config, inLongFormat)
          IN  engine' = <<[fn |-> "run_pipeline", args |-> <<inLongFormat>>,
                           ret |-> r.ret, exc |-> r.exc]>>
    /\ UNCHANGED <<config, regions, year_range, calls, wide, long, query>>

NextQuery == SanitizeQuery \/ RunPipeline

SpecQuery == InitQuery /\ [][NextQuery]_vars

\* a field of the raw query that is invalid against the dataset
RegionInvalid(q) ==
    ~IsNone(q.region) /\
    \A r \in Range(long) : Lower(r["Continent"]) # Lower(Val(q.region))
CountryInvalid(q) ==
    ~IsNone(q.country) /\
    \A r \in Range(long) : Lower(r["Country Name"]) # Lower(Val(q.country))
YearInvalid(y) == ~InRange(y)
OperationInvalid(q) == ~IsNone(q.operation) /\ ~KnownOperation(q.operation)
SomeInvalid(q) ==
    \/ RegionInvalid(q)
    \/ CountryInvalid(q)
    \/ YearInvalid(q.startYear)
    \/ YearInvalid(q.endYear)
    \/ OperationInvalid(q)

\* the raw query with its invalid fields omitted; a pair of valid years in
\* the wrong order counts as two invalid fields
Omitted(q) ==
    LET s == IF YearInvalid(q.startYear) THEN None ELSE q.startYear
        e == IF YearInvalid(q.endYear) THEN None ELSE q.endYear
        reversed == ~IsNone(s) /\ ~IsNone(e) /\ Val(e) < Val(s)
    IN  QueryConfig(IF RegionInvalid(q) THEN None ELSE q.region,
                    IF CountryInvalid(q) THEN None ELSE q.country,
                    IF reversed THEN None ELSE s,
                    IF reversed THEN None ELSE e,
                    IF OperationInvalid(q) THEN None ELSE q.operation)

PipelineCalls == {i \in 1..Len(engine) : engine[i].fn = "run_pipeline"}

\* C7: when some field of the raw query is invalid against the dataset,
\* sanitizing the query and running the pipeline raises nothing and
\* returns the rows the pipeline returns for the query with its invalid
\* fields omitted
C7_MalformedQueryRelaxed ==
    \A i \in PipelineCalls :
        SomeInvalid(query) =>
            /\ Ok(calls[1])
            /\ Ok(engine[i])
            /\ engine[i].ret =
                   run_pipeline(wide, Omitted(query), engine[i].args[1]).ret

---------------------------------------------------------------------------
(* The row filters and apply_filters called on a long table *)

\* the filters of apply_filters without the dropna that follows them
apply_filters_keep_nan(df, region, country, start_year, end_year) ==
    LET byRegion == IF ~IsNone(region) THEN _filter_by_region(df, region)
                    ELSE df
        byCountry == IF ~IsNone(country)
                     THEN _filter_by_country(byRegion, country)
                     ELSE byRegion
    IN  IF ~IsNone(start_year) \/ ~IsNone(end_year)
        THEN _filter_by_year(byCountry, start_year, end_year)
        ELSE byCountry

\* engine.apply_filters(df, region, country, start_year, end_year)
apply_filters(df, region, country, start_year, end_year) ==
    DropNaValue(apply_filters_keep_nan(df, region, country, start_year,
                                       end_year))

\* long tables whose Value cells are a number or NaN
StageRows ==
    {[c \in LongCols |->
        IF c = "Year" THEN y ELSE IF c = "Value" THEN v ELSE e[c]] :
     e \in Entities, y \in DataYears, v \in WideCells}
IsStageTable(df) == \E n \in 0..MaxRows : df \in [1..n -> StageRows]

\* filter arguments: None, a value of the data in another letter case, and
\* a value no row has
RegionArgs == {None, Some("europe"), Some("Mars")}
CountryArgs == {None, Some("JAPAN"), Some("Wakanda")}
\* year arguments: None, the first year of the data and the next one
PipelineYears == {None, Some(2000), Some(2001)}

InitStages ==
    /\ SanitizerIdle
    /\ wide = NoTable
    /\ IsStageTable(long)
    /\ query = NoQuery
    /\ engine = <<>>

\* the record of one call of a stage that returned ret
Returned(fn, args, ret) ==
    [fn |-> fn, args |-> args, ret |-> Some(ret), exc |-> ""]

FilterByRegion ==
    /\ engine = <<>>
    /\ \E region \in RegionArgs :
          engine' = <<Returned("_filter_by_region", <<region>>,
                              _filter_by_region(long, region))>>
    /\ UNCHANGED <<config, regions, year_range, calls, wide, long, query>>

FilterByCountry ==
    /\ engine = <<>>
    /\ \E country \in CountryArgs :
          engine' = <<Returned("_filter_by_country", <<country>>,
                              _filter_by_country(long, country))>>
    /\ UNCHANGED <<config, regions, year_range, calls, wide, long, query>>

ApplyFilters ==
    /\ engine = <<>>
    /\ \E region \in RegionArgs, country \in CountryArgs,
          start \in YearInputs, end \in YearInputs :
          engine' = <<Returned("apply_filters", <<region, country, start, end>>,
                              apply_filters(long, region, country, start, end))>>
    /\ UNCHANGED <<config, regions, year_range, calls, wide, long, query>>


\* one of the three row filters, by name
RowFilter(df, which, region, country, start, end) ==
    CASE which = "region" -> _filter_by_region(df, region)
      [] which = "country" -> _filter_by_country(df, country)
      [] which = "year" -> _filter_by_year(df, start, end)

\* the orders in which the three row filters can be applied
FilterOrders ==
    {<<"region", "country", "year">>, <<"region", "year", "country">>,
     <<"country", "region", "year">>, <<"country", "year", "region">>,
     <<"year", "region", "country">>, <<"year", "country", "region">>}

\* the three row filters applied one after the other in the given order
FilterChain(df, order, region, country, start, end) ==
    LET first == RowFilter(df, order[1], region, country, start, end)
        second == RowFilter(first, order[2], region, country, start, end)
    IN  RowFilter(second, order[3], region, country, start, end)

\* the row filters applied to the table in every order
FilterChains ==
    /\ engine = <<>>
    /\ \E region \in RegionArgs, country \in CountryArgs,
          start \in PipelineYears, end \in PipelineYears :
          engine' = <<Returned("filter_chains", <<region, country, start, end>>,
                              [order \in FilterOrders |->
                                  FilterChain(long, order, region, country,
                                              start, end)])>>
    /\ UNCHANGED <<config, regions, year_range, calls, wide, long, query>>

NextStages == FilterByRegion \/ FilterByCountry \/ ApplyFilters \/ FilterChains

SpecStages == InitStages /\ [][NextStages]_vars

---------------------------------------------------------------------------
(* Properties of the row filters *)

StageCalls(fn) == {i \in 1..Len(engine) : engine[i].fn = fn}

\* the cell equals the filter argument ignoring letter case, or there is
\* no argument
Matches(cell, arg) == IsNone(arg) \/ Lower(cell) = Lower(Val(arg))
HasValue(r) == ~IsNone(r["Value"])
\* y is inside the bounds that are given, a bound not given being no bound
YearOpen(y, start, end) ==
    /\ IsNone(start) \/ Val(start) <= y
    /\ IsNone(end) \/ y <= Val(end)

C12_FilterOrder ==
    \A i \in StageCalls("filter_chains") :
        \A o1 \in FilterOrders, o2 \in FilterOrders :
            Val(engine[i].ret)[o1] = Val(engine[i].ret)[o2]

\* region and year filters were both given, each of them alone keeps a row
\* and removes a row, and they do not keep the same rows, so the tables
\* in between differ from one order to the other
C12_Witness ==
    \E i \in StageCalls("filter_chains") :
        LET a == engine[i].args
            byRegion == _filter_by_region(long, a[1])
            byYear == _filter_by_year(long, a[3], a[4])
        IN  /\ ~IsNone(a[1]) /\ ~IsNone(a[3])
            /\ byRegion # long /\ byRegion # <<>>
            /\ byYear # long /\ byYear # <<>>
            /\ byRegion # byYear

\* C13: the region and country filters keep exactly the rows whose
\* Continent (Country Name) equals the argument ignoring letter case, so
\* an argument matching no row gives an empty table, and None keeps every row
C13_RegionCountryFilter ==
    /\ \A i \in StageCalls("_filter_by_region") :
           /\ engine[i].exc = ""
           /\ Val(engine[i].ret) =
                  SelectSeq(long, LAMBDA r :
                      Matches(r["Continent"], engine[i].args[1]))
           /\ IsNone(engine[i].args[1]) => Val(engine[i].ret) = long
           /\ (~IsNone(engine[i].args[1]) /\
               \A r \in Range(long) :
                   Lower(r["Continent"]) # Lower(Val(engine[i].args[1])))
              => Val(engine[i].ret) = <<>>
    /\ \A i \in StageCalls("_filter_by_country") :
           /\ engine[i].exc = ""
           /\ Val(engine[i].ret) =
                  SelectSeq(long, LAMBDA r :
                      Matches(r["Country Name"], engine[i].args[1]))
           /\ IsNone(engine[i].args[1]) => Val(engine[i].ret) = long
           /\ (~IsNone(engine[i].args[1]) /\
               \A r \in Range(long) :
                   Lower(r["Country Name"]) # Lower(Val(engine[i].args[1])))
              => Val(engine[i].ret) = <<>>

\* the region filter, given "europe", kept the row of Continent "Europe"
\* and removed the row of Asia
C13_Witness ==
    \E i \in StageCalls("_filter_by_region") :
        /\ engine[i].args[1] = Some("europe")
        /\ Len(long) = 2
        /\ long[1]["Continent"] = "Asia"
        /\ long[2]["Continent"] = "Europe"
        /\ Val(engine[i].ret) = <<long[2]>>

---------------------------------------------------------------------------
(* The aggregators called on a long table *)

\* the values of column col in sorted order (groupby sorts its groups)
SortedKeysOf(df, col) ==
    LET K == {r[col] : r \in Range(df)}
    IN  CHOOSE f \in [1..Cardinality(K) -> K] :
            \A a, b \in 1..Cardinality(K) :
                a < b => StrRank(f[a]) < StrRank(f[b])

\* the Values that are not NaN of the rows whose column col holds key
ValuesOf(df, col, key) ==
    LET rows == SelectSeq(df, LAMBDA r : r[col] = key /\ ~IsNone(r["Value"]))
    IN  [i \in 1..Len(rows) |-> Val(rows[i]["Value"])]

\* a reduction of the whole table instead of its groups: one row whatever
\* the table holds
GroupedByNothing(df, col, useSum) ==
    <<[c \in {col, "Value"} |->
        IF c = col THEN "all"
        ELSE GroupSum([i \in 1..Len(DropNaValue(df)) |->
                          Val(DropNaValue(df)[i]["Value"])])]>>

\* df.groupby(col, as_index=False)["Value"].sum() when useSum, else .mean()
GroupedBy(df, col, useSum) ==
    LET keys == SortedKeysOf(df, col)
    IN  [g \in 1..Len(keys) |->
            [c \in {col, "Value"} |->
                IF c = col THEN keys[g]
                ELSE IF useSum THEN GroupSum(ValuesOf(df, col, keys[g]))
                ELSE GroupMean(ValuesOf(df, col, keys[g]))]]

\* engine.aggregate_by_region(df, operation)
aggregate_by_region(df, operation) ==
    GroupedBy(df, "Continent", operation = "sum")

\* engine.aggregate_by_country(df, operation)
aggregate_by_country(df, operation) ==
    GroupedBy(df, "Country Name", operation = "sum")

\* engine.aggregate_by_country_code(df, operation)
aggregate_by_country_code(df, operation) ==
    GroupedBy(df, "Country Code", operation = "sum")

\* pipeline.aggregate_all(df, operation): operation.lower() without the
\* None default of engine.aggregate_all
pipeline_aggregate_all(df, operation) ==
    IF IsNone(operation)
    THEN [ret |-> None, exc |-> "AttributeError"]
    ELSE [ret |-> Some(aggregate_all(df, operation)), exc |-> ""]

\* operation strings given to the single-dimension aggregators
OperationStrings == {"sum", "SUM", "avg", "median"}
\* operation arguments of aggregate_all
OperationArgs ==
    {None, Some("sum"), Some("SUM"), Some("avg"), Some("Average"),
     Some("median")}

InitAggregate ==
    /\ SanitizerIdle
    /\ wide = NoTable
    /\ IsLongTable(long)
    /\ query = NoQuery
    /\ engine = <<>>

AggregateByRegion ==
    /\ engine = <<>>
    /\ \E operation \in OperationStrings :
          engine' = <<Returned("aggregate_by_region", <<"Continent", operation>>,
                              aggregate_by_region(long, operation))>>
    /\ UNCHANGED <<config, regions, year_range, calls, wide, long, query>>

AggregateByCountry ==
    /\ engine = <<>>
    /\ \E operation \in OperationStrings :
          engine' = <<Returned("aggregate_by_country", <<"Country Name", operation>>,
                              aggregate_by_country(long, operation))>>
    /\ UNCHANGED <<config, regions, year_range, calls, wide, long, query>>

AggregateByCountryCode ==
    /\ engine = <<>>
    /\ \E operation \in OperationStrings :
          engine' = <<Returned("aggregate_by_country_code",
                              <<"Country Code", operation>>,
                              aggregate_by_country_code(long, operation))>>
    /\ UNCHANGED <<config, regions, year_range, calls, wide, long, query>>

AggregateAll ==
    /\ engine = <<>>
    /\ \E operation \in OperationArgs :
          engine' = <<Returned("aggregate_all", <<operation>>,
                              aggregate_all(long, operation))>>
    /\ UNCHANGED <<config, regions, year_range, calls, wide, long, query>>

PipelineAggregateAll ==
    /\ engine = <<>>
    /\ \E operation \in OperationArgs :
          LET r == pipeline_aggregate_all(long, operation)
          IN  engine' = <<[fn |-> "pipeline.aggregate_all",
                           args |-> <<operation>>,
                           ret |-> r.ret, exc |-> r.exc]>>
    /\ UNCHANGED <<config, regions, year_range, calls, wide, long, query>>

NextAggregate ==
    \/ AggregateByRegion
    \/ AggregateByCountry
    \/ AggregateByCountryCode
    \/ AggregateAll
    \/ PipelineAggregateAll

SpecAggregate == InitAggregate /\ [][NextAggregate]_vars


---------------------------------------------------------------------------
(* Properties of the aggregators *)

SingleDimensionCalls ==
    {i \in 1..Len(engine) :
        engine[i].fn \in {"aggregate_by_region", "aggregate_by_country",
                          "aggregate_by_country_code"}}

\* the rows of df whose column col holds key and whose Value is a number
Members(df, col, key) ==
    {k \in 1..Len(df) : df[k][col] = key /\ HasValue(df[k])}

\* the sum of the Values of the rows of df with the indices in S
RECURSIVE Total(_, _)
Total(df, S) ==
    IF S = {} THEN 0
    ELSE LET k == CHOOSE k \in S : TRUE
         IN  Val(df[k]["Value"]) + Total(df, S \ {k})

\* v is the sum of the Values of the rows in S (NaN cells left out)
IsSumOf(v, df, S) ==
    ~IsNone(v) /\ Val(v).den = 1 /\ Val(v).num = Total(df, S)
\* v is the mean of the Values of the rows in S, NaN when S is empty
IsMeanOf(v, df, S) ==
    IF S = {} THEN IsNone(v)
    ELSE ~IsNone(v) /\ Val(v).num * Cardinality(S) = Total(df, S) * Val(v).den

\* C17: a single-dimension aggregator returns exactly one row per distinct
\* value of its key column in the input, whose Value is the sum of the
\* group's Values when operation = "sum" and their mean for every other
\* operation string (cells that are NaN are left out of both)
C17_SingleDimension ==
    \A i \in SingleDimensionCalls :
        LET col == engine[i].args[1]
            operation == engine[i].args[2]
            out == Val(engine[i].ret)
        IN  /\ engine[i].exc = ""
            /\ \A key \in {r[col] : r \in Range(long)} :
                   Cardinality({g \in 1..Len(out) : out[g][col] = key}) = 1
            /\ \A g \in 1..Len(out) :
                   /\ DOMAIN out[g] = {col, "Value"}
                   /\ \E r \in Range(long) : r[col] = out[g][col]
                   /\ IF operation = "sum"
                      THEN IsSumOf(out[g]["Value"], long,
                                   Members(long, col, out[g][col]))
                      ELSE IsMeanOf(out[g]["Value"], long,
                                    Members(long, col, out[g][col]))

\* aggregate_by_region was given "SUM" and two rows of one continent with
\* the Values 1 and 2, and returned one row with their mean 3/2
C17_Witness ==
    \E i \in StageCalls("aggregate_by_region") :
        /\ engine[i].args[2] = "SUM"
        /\ Len(long) = 2
        /\ long[1]["Continent"] = long[2]["Continent"]
        /\ long[1]["Value"] = Some(1) /\ long[2]["Value"] = Some(2)
        /\ Len(Val(engine[i].ret)) = 1
        /\ Val(engine[i].ret)[1]["Value"] = Some([num |-> 3, den |-> 2])

AggregateAllCalls ==
    {i \in 1..Len(engine) :
        engine[i].fn \in {"aggregate_all", "pipeline.aggregate_all"}}

\* out holds one row per distinct identifier tuple of df, with the sum
\* (useSum) or the mean of the group's Values and the Operation label
IsGroupedForm(out, df, useSum, label) ==
    /\ \A key \in {GroupKey(r) : r \in Range(df)} :
           Cardinality({g \in 1..Len(out) : GroupKey(out[g]) = key}) = 1
    /\ \A g \in 1..Len(out) :
           LET S == {k \in 1..Len(df) :
                        GroupKey(df[k]) = GroupKey(out[g]) /\ HasValue(df[k])}
           IN  /\ DOMAIN out[g] = Range(GroupCols) \cup {"Value", "Operation"}
               /\ \E r \in Range(df) : GroupKey(r) = GroupKey(out[g])
               /\ out[g]["Operation"] = label
               /\ IF useSum THEN IsSumOf(out[g]["Value"], df, S)
                  ELSE IsMeanOf(out[g]["Value"], df, S)

\* C18: aggregate_all, with the operation lower-cased, groups by the five
\* identifier columns and sums for "sum" (Operation = "Sum"), takes the
\* mean for "avg", "average" and None (Operation = "Average"), returns the
\* input rows unchanged and without an Operation column for every other
\* string, and never raises
C18_AggregateAll ==
    \A i \in AggregateAllCalls :
        LET operation == engine[i].args[1]
            op == IF IsNone(operation) THEN "avg" ELSE Lower(Val(operation))
        IN  /\ engine[i].exc = ""
            /\ CASE op = "sum" ->
                      IsGroupedForm(Val(engine[i].ret), long, TRUE, "Sum")
                 [] op \in {"avg", "average"} ->
                      IsGroupedForm(Val(engine[i].ret), long, FALSE, "Average")
                 [] OTHER ->
                      /\ Val(engine[i].ret) = long
                      /\ \A r \in Range(Val(engine[i].ret)) :
                             "Operation" \notin DOMAIN r


\* every identifier tuple of df is carried by exactly one row
OneRowPerGroup(df) ==
    \A j, k \in 1..Len(df) : j # k => GroupKey(df[j]) # GroupKey(df[k])

\* two aggregated tables agree: the same groups in the same order with the
\* same Values (the Operation label names the reduction and is left out)
Agree(a, b) ==
    /\ Len(a) = Len(b)
    /\ \A g \in 1..Len(a) :
           /\ GroupKey(a[g]) = GroupKey(b[g])
           /\ a[g]["Value"] = b[g]["Value"]

SumCalls ==
    {i \in StageCalls("aggregate_all") : engine[i].args[1] = Some("sum")}

\* C19 as stated: on every long table in which each identifier tuple has
\* exactly one row, aggregate_all with "sum" and with "avg" agree
C19_SumAvgAgreeAnyTable ==
    \A i \in SumCalls :
        OneRowPerGroup(long) =>
            Agree(Val(engine[i].ret), aggregate_all(long, Some("avg")))

\* C19: on every long table without NaN Values in which each identifier
\* tuple has exactly one row, aggregate_all with "sum" and with "avg"
\* return the same groups with the same Values
C19_SumAvgAgree ==
    \A i \in SumCalls :
        (OneRowPerGroup(long) /\ \A r \in Range(long) : HasValue(r)) =>
            Agree(Val(engine[i].ret), aggregate_all(long, Some("avg")))

\* aggregate_all summed a table of two groups of one row each, with the
\* Values 1 and 2
C19_Witness ==
    \E i \in SumCalls :
        /\ Len(long) = 2
        /\ OneRowPerGroup(long)
        /\ {long[1]["Value"], long[2]["Value"]} = {Some(1), Some(2)}
        /\ Len(Val(engine[i].ret)) = 2


---------------------------------------------------------------------------
(* The orchestrators called on a wide table with a filter set *)

\* engine.get_query_result(df, filters): prints the result, returns None
get_query_result(df, filters) ==
    LET r == run_pipeline(df, filters, FALSE)
    IN  [ret |-> None, exc |-> r.exc, printed |-> r.ret,
         handed |-> run_pipeline(df, filters, TRUE).ret]

\* pipeline.run_pipeline(df, query_config): no country filter, the
\* aggregate_all of pipeline.py; prints the result, returns None
pipeline_run_pipeline(df, query_config) ==
    LET t == transform(df)
    IN  IF t.exc # ""
        THEN [ret |-> None, exc |-> t.exc, printed |-> None, handed |-> None]
        ELSE LET byRegion == _filter_by_region(Val(t.ret), query_config.region)
                 byYear == _filter_by_year(byRegion, query_config.startYear,
                                           query_config.endYear)
                 a == pipeline_aggregate_all(DropNaValue(byYear),
                                             query_config.operation)
             IN  [ret |-> None, exc |-> a.exc, printed |-> a.ret,
                  handed |-> Some(DropNaValue(byYear))]

\* the functions core_api hands to _aggregate_helper
PipelineFuncs ==
    {"aggregate_by_region", "aggregate_by_country",
     "aggregate_by_country_code", "aggregate_all"}

\* pipeline_func(df, operation) of _aggregate_helper
CallPipelineFunc(pipeline_func, df, operation) ==
    CASE pipeline_func = "aggregate_by_region" ->
             aggregate_by_region(df, operation)
      [] pipeline_func = "aggregate_by_country" ->
             aggregate_by_country(df, operation)
      [] pipeline_func = "aggregate_by_country_code" ->
             aggregate_by_country_code(df, operation)
      [] pipeline_func = "aggregate_all" ->
             aggregate_all(df, Some(operation))

\* core_api._aggregate_helper(pipeline_func, body) once the body is
\* resolved to filters: the long-format pipeline, then
\* pipeline_func(df, filters.operation or "avg")
_aggregate_helper(pipeline_func, base_df, filters) ==
    LET r == run_pipeline(base_df, filters, TRUE)
        operation == IF Falsy(filters.operation) THEN "avg"
                     ELSE Val(filters.operation)
    IN  IF r.exc # ""
        THEN [ret |-> None, exc |-> r.exc, printed |-> None, handed |-> None]
        ELSE [ret |-> Some(CallPipelineFunc(pipeline_func, Val(r.ret),
                                             operation)),
              exc |-> "",
              printed |-> None,
              handed |-> r.ret]

\* filter sets given to the orchestrators
PipelineFilters ==
    {QueryConfig(r, c, s, e, op) :
        r \in {None, Some("europe")},
        c \in {None, Some("JAPAN")},
        s \in PipelineYears, e \in PipelineYears,
        op \in {None, Some("SUM"), Some("median")}}

InitPipeline ==
    /\ SanitizerIdle
    /\ IsQueryTable(wide)
    /\ long = <<>>
    /\ query = NoQuery
    /\ engine = <<>>


\* the record of one call of an orchestrator: what it returned, raised and
\* printed, and the table it handed to its aggregator (None when it has none)
Called(fn, args, r) ==
    [fn |-> fn, args |-> args, ret |-> r.ret, exc |-> r.exc,
     printed |-> r.printed, handed |-> r.handed]

\* apply_filters(transform(df), region, country, startYear, endYear)
TransformApplyFilters ==
    /\ engine = <<>>
    /\ \E f \in PipelineFilters :
          LET t == transform(wide)
          IN  /\ t.exc = ""
              /\ engine' =
                   <<Called("apply_filters", <<f>>,
                            [ret |-> Some(apply_filters(Val(t.ret), f.region,
                                              f.country, f.startYear,
                                              f.endYear)),
                             exc |-> "", printed |-> None, handed |-> None])>>
    /\ UNCHANGED <<config, regions, year_range, calls, wide, long, query>>

\* engine.run_pipeline(df, filters, inLongFormat)
CallRunPipeline ==
    /\ engine = <<>>
    /\ \E f \in PipelineFilters, inLongFormat \in BOOLEAN :
          LET r == run_pipeline(wide, f, inLongFormat)
          IN  engine' =
                <<Called("run_pipeline", <<f, inLongFormat>>,
                         [ret |-> r.ret, exc |-> r.exc, printed |-> None,
                          handed |-> IF inLongFormat THEN None
                                     ELSE run_pipeline(wide, f, TRUE).ret])>>
    /\ UNCHANGED <<config, regions, year_range, calls, wide, long, query>>

\* engine.get_query_result(df, filters)
CallGetQueryResult ==
    /\ engine = <<>>
    /\ \E f \in PipelineFilters :
          engine' = <<Called("get_query_result", <<f>>,
                             get_query_result(wide, f))>>
    /\ UNCHANGED <<config, regions, year_range, calls, wide, long, query>>

\* core_api._aggregate_helper(pipeline_func, body) on the resolved filters
CallAggregateHelper ==
    /\ engine = <<>>
    /\ \E f \in PipelineFilters, pipeline_func \in PipelineFuncs :
          engine' = <<Called("_aggregate_helper", <<f, pipeline_func>>,
                             _aggregate_helper(pipeline_func, wide, f))>>
    /\ UNCHANGED <<config, regions, year_range, calls, wide, long, query>>

\* pipeline.run_pipeline(df, query_config)
CallPipelineRunPipeline ==
    /\ engine = <<>>
    /\ \E f \in PipelineFilters :
          engine' = <<Called("pipeline.run_pipeline", <<f>>,
                             pipeline_run_pipeline(wide, f))>>
    /\ UNCHANGED <<config, regions, year_range, calls, wide, long, query>>

NextPipeline ==
    \/ TransformApplyFilters
    \/ CallRunPipeline
    \/ CallGetQueryResult
    \/ CallAggregateHelper
    \/ CallPipelineRunPipeline

SpecPipeline == InitPipeline /\ [][NextPipeline]_vars

---------------------------------------------------------------------------
(* Properties of the orchestrators *)

NoNaN(df) == \A r \in Range(df) : HasValue(r)

\* C15: null values never reach aggregation: the output of apply_filters
\* and of run_pipeline(inLongFormat=True) has no row with a missing Value,
\* and the table run_pipeline, get_query_result and the API aggregate
\* helper hand to their aggregator has none either
C15_NoNullReachesAggregation ==
    \A i \in 1..Len(engine) :
        /\ (engine[i].fn = "apply_filters" /\ Ok(engine[i]))
               => NoNaN(Val(engine[i].ret))
        /\ (engine[i].fn = "run_pipeline" /\ engine[i].args[2] /\ Ok(engine[i]))
               => NoNaN(Val(engine[i].ret))
        /\ ~IsNone(engine[i].handed) => NoNaN(Val(engine[i].handed))

\* the long form of the table has a NaN row and a row with a Value, the
\* filters are all None, and the aggregate helper was handed the row with
\* the Value only
C15_Witness ==
    \E i \in StageCalls("_aggregate_helper") :
        /\ engine[i].args[1] = NoQuery
        /\ Len(Val(transform(wide).ret)) = 2
        /\ ~NoNaN(Val(transform(wide).ret))
        /\ Len(Val(engine[i].handed)) = 1

\* C16: every row that survives the pipeline has an integer Year inside
\* the year range get_year_range derives for the dataset
C16_YearInBounds ==
    \A i \in 1..Len(engine) :
        (engine[i].fn \in {"apply_filters", "run_pipeline"}
         /\ Ok(engine[i])) =>
            LET bounds == get_year_range(Val(transform(wide).ret))
            IN  \A r \in Range(Val(engine[i].ret)) :
                    "Year" \in DOMAIN r =>
                        /\ r["Year"] \in Int
                        /\ bounds[1] <= r["Year"]
                        /\ r["Year"] <= bounds[2]

\* the dataset has two years, all filters are None and a row of the last
\* year survived the long-format pipeline
C16_Witness ==
    \E i \in StageCalls("run_pipeline") :
        LET bounds == get_year_range(Val(transform(wide).ret))
        IN  /\ engine[i].args[2]
            /\ engine[i].args[1] = NoQuery
            /\ bounds[1] < bounds[2]
            /\ \E r \in Range(Val(engine[i].ret)) : r["Year"] = bounds[2]


\* transform, then the region, country and year filters, then the removal
\* of the rows without a Value
FilteredLongForm(df, f) ==
    DropNaValue(
        _filter_by_year(
            _filter_by_country(
                _filter_by_region(Val(transform(df).ret), f.region),
                f.country),
            f.startYear, f.endYear))

\* the table the composition of the stages gives for the skip flag
Composition(df, f, inLongFormat) ==
    IF inLongFormat THEN FilteredLongForm(df, f)
    ELSE aggregate_all(FilteredLongForm(df, f), f.operation)

\* C20: run_pipeline is the composition of the stages: transform, region
\* filter, country filter, year filter, removal of null Values, then
\* aggregate_all with the filters' operation; with the skip flag set it is
\* apply_filters(transform(W), ...) and its rows have no Operation column
C20_Composition ==
    /\ \A i \in StageCalls("run_pipeline") :
           LET f == engine[i].args[1]
               inLongFormat == engine[i].args[2]
           IN  /\ Ok(engine[i])
               /\ engine[i].ret = Some(Composition(wide, f, inLongFormat))
               /\ inLongFormat =>
                     /\ Val(engine[i].ret) =
                            apply_filters(Val(transform(wide).ret), f.region,
                                          f.country, f.startYear, f.endYear)
                     /\ \A r \in Range(Val(engine[i].ret)) :
                            "Operation" \notin DOMAIN r
    /\ \A i \in StageCalls("pipeline.run_pipeline") :
           /\ Ok(engine[i])
           /\ engine[i].ret =
                  Some(Composition(wide, engine[i].args[1], FALSE))


---------------------------------------------------------------------------
(* The stages as calls on DataFrame objects: what happens to the object *)
(* passed in, and which object comes back                               *)

\* the object passed to a stage
InputFrame == "df"

\* a copy that is the object itself
copy_same(obj) == obj

\* DataFrame.copy(): a new object
copy(obj) == "copy"

\* the object a row filter returns: df.copy() without an argument, else
\* df[mask].copy()
FilterObject(skipped) ==
    IF skipped THEN copy(InputFrame) ELSE copy("df[mask]")

\* the object aggregate_all returns: groupby(...).assign(...) for a known
\* operation, else df.copy()
AggregateAllObject(obj, operation) ==
    LET op == IF IsNone(operation) THEN "avg" ELSE Lower(Val(operation))
    IN  IF op \in {"sum", "avg", "average"} THEN "assign" ELSE copy(obj)

\* the record of one call: the tables as they were when it was made, the
\* table returned and the object returned
Frame(fn, args, ret, obj) ==
    [fn |-> fn, args |-> args, before |-> <<wide, long>>,
     ret |-> Some(ret), exc |-> "", obj |-> obj]

InitFrame ==
    /\ SanitizerIdle
    /\ IsQueryTable(wide)
    /\ long = Val(transform(wide).ret)
    /\ query = NoQuery
    /\ engine = <<>>

\* transform(df): df.melt(...).assign(...)
FrameTransform ==
    /\ engine = <<>>
    /\ engine' = <<Frame("transform", <<>>, Val(transform(wide).ret),
                         "assign")>>
    /\ UNCHANGED <<config, regions, year_range, calls, wide, long, query>>

FrameFilterByRegion ==
    /\ engine = <<>>
    /\ \E region \in RegionArgs :
          engine' = <<Frame("_filter_by_region", <<region>>,
                            _filter_by_region(long, region),
                            FilterObject(IsNone(region)))>>
    /\ UNCHANGED <<config, regions, year_range, calls, wide, long, query>>

FrameFilterByCountry ==
    /\ engine = <<>>
    /\ \E country \in CountryArgs :
          engine' = <<Frame("_filter_by_country", <<country>>,
                            _filter_by_country(long, country),
                            FilterObject(IsNone(country)))>>
    /\ UNCHANGED <<config, regions, year_range, calls, wide, long, query>>

FrameFilterByYear ==
    /\ engine = <<>>
    /\ \E start \in PipelineYears, end \in PipelineYears :
          engine' = <<Frame("_filter_by_year", <<start, end>>,
                            _filter_by_year(long, start, end),
                            FilterObject(IsNone(start) /\ IsNone(end)))>>
    /\ UNCHANGED <<config, regions, year_range, calls, wide, long, query>>

\* apply_filters(df, ...): result = df.copy(), the filters, result.dropna()
FrameApplyFilters ==
    /\ engine = <<>>
    /\ \E f \in PipelineFilters :
          engine' = <<Frame("apply_filters", <<f>>,
                            apply_filters(long, f.region, f.country,
                                          f.startYear, f.endYear),
                            "dropna")>>
    /\ UNCHANGED <<config, regions, year_range, calls, wide, long, query>>

\* an aggregator: df.groupby(...)["Value"].sum() / .mean(), or the copy
\* aggregate_all returns for an unknown operation
FrameAggregate ==
    /\ engine = <<>>
    /\ \E pipeline_func \in PipelineFuncs, operation \in OperationStrings :
          engine' = <<Frame(pipeline_func, <<operation>>,
                            CallPipelineFunc(pipeline_func, long, operation),
                            IF pipeline_func = "aggregate_all"
                            THEN AggregateAllObject(InputFrame, Some(operation))
                            ELSE "groupby")>>
    /\ UNCHANGED <<config, regions, year_range, calls, wide, long, query>>

\* run_pipeline(df, filters, inLongFormat): the dropna result, or what
\* aggregate_all returns for it
FrameRunPipeline ==
    /\ engine = <<>>
    /\ \E f \in PipelineFilters, inLongFormat \in BOOLEAN :
          engine' = <<Frame("run_pipeline", <<f, inLongFormat>>,
                            Val(run_pipeline(wide, f, inLongFormat).ret),
                            IF inLongFormat THEN "dropna"
                            ELSE AggregateAllObject("dropna", f.operation))>>
    /\ UNCHANGED <<config, regions, year_range, calls, wide, long, query>>

NextFrame ==
    \/ FrameTransform
    \/ FrameFilterByRegion
    \/ FrameFilterByCountry
    \/ FrameFilterByYear
    \/ FrameApplyFilters
    \/ FrameAggregate
    \/ FrameRunPipeline

SpecFrame == InitFrame /\ [][NextFrame]_vars

\* C14: no engine stage mutates its input: after a call of transform, a
\* filter, apply_filters, an aggregator or run_pipeline the table passed in
\* is as it was, and the table returned is another object, also when the
\* filter argument is None
C14_NoMutation ==
    \A i \in 1..Len(engine) :
        /\ <<wide, long>> = engine[i].before
        /\ engine[i].obj # InputFrame

\* the region filter was called with None on a table with rows and gave
\* back a table with the same rows that is another object
C14_Witness ==
    \E i \in StageCalls("_filter_by_region") :
        /\ IsNone(engine[i].args[1])
        /\ long # <<>>
        /\ Val(engine[i].ret) = long
        /\ engine[i].obj # InputFrame


\* the stages C21 names that take a long table
LongStages ==
    {"_filter_by_region", "_filter_by_country", "_filter_by_year",
     "apply_filters", "aggregate_by_region", "aggregate_by_country",
     "aggregate_by_country_code", "aggregate_all"}

\* C21: empty input is handled without failure: given a table with the
\* required columns and zero rows, transform, the three filters,
\* apply_filters, the single-dimension aggregators and aggregate_all each
\* return a table with zero rows and raise nothing
C21_EmptyInput ==
    \A i \in 1..Len(engine) :
        /\ (engine[i].fn = "transform" /\ engine[i].before[1].rows = <<>>)
               => /\ transform(engine[i].before[1]).exc = ""
                  /\ engine[i].exc = ""
                  /\ Val(engine[i].ret) = <<>>
        /\ (engine[i].fn \in LongStages /\ engine[i].before[2] = <<>>)
               => /\ engine[i].exc = ""
                  /\ Val(engine[i].ret) = <<>>

\* an aggregator was given the empty long form of a wide table that has
\* year columns and no row, and returned no row
C21_Witness ==
    \E i \in StageCalls("aggregate_by_country") :
        /\ wide.rows = <<>>
        /\ Len(wide.columns) > Len(IdCols)
        /\ long = <<>>
        /\ Ok(engine[i])
        /\ Val(engine[i].ret) = <<>>


---------------------------------------------------------------------------
(* The metadata extractor on tables of any content: src/core/metadata.py *)

\* a cell of a Year column that holds more than integers: an integer, the
\* floats NaN and inf, or a string
IntCell(n) == [kind |-> "int", num |-> n, text |-> ""]
NaNCell == [kind |-> "nan", num |-> 0, text |-> ""]
InfCell == [kind |-> "inf", num |-> 0, text |-> ""]
StrCell(s) == [kind |-> "str", num |-> 0, text |-> s]

\* pd.to_numeric(cell, errors="coerce"): a number stays, a string that
\* parses becomes its number ("inf" parses as the float inf), every other
\* string becomes NaN
to_numeric(cell) ==
    CASE cell.kind = "int" -> cell
      [] cell.kind = "nan" -> cell
      [] cell.kind = "inf" -> cell
      [] cell.kind = "str" ->
            IF cell.text = "inf" THEN InfCell
            ELSE IF IsNone(ParseInt(cell.text)) THEN NaNCell
            ELSE IntCell(Val(ParseInt(cell.text)))

\* the order of floats on numbers that are not NaN
NumLeq(a, b) ==
    \/ b.kind = "inf"
    \/ a.kind = "int" /\ b.kind = "int" /\ a.num <= b.num

\* int(x) on a float: OverflowError on inf
ToInt(x) ==
    IF x.kind = "inf" THEN [ret |-> None, exc |-> "OverflowError"]
    ELSE [ret |-> Some(x.num), exc |-> ""]

\* get_year_range(df) on a Year column of any cells
get_year_range_any(df) ==
    LET column == extract_column(df, "Year")
        numeric == [i \in 1..Len(column) |-> to_numeric(column[i])]
        years == Range(SelectSeq(numeric, LAMBDA x : x.kind # "nan"))
    IN  IF years = {} THEN [ret |-> Some(DEFAULT_YEAR_RANGE), exc |-> ""]
        ELSE LET lo == ToInt(CHOOSE y \in years : \A z \in years : NumLeq(y, z))
                 hi == ToInt(CHOOSE y \in years : \A z \in years : NumLeq(z, y))
             IN  IF lo.exc # "" THEN [ret |-> None, exc |-> lo.exc]
                 ELSE IF hi.exc # "" THEN [ret |-> None, exc |-> hi.exc]
                 ELSE [ret |-> Some(<<Val(lo.ret), Val(hi.ret)>>), exc |-> ""]

get_all_countries(df) == normalize_strings(extract_column(df, "Country Name"))

\* sorted(names) on the title-cased names of the model
sorted(names) ==
    IF names = <<>> THEN <<>>
    ELSE CHOOSE f \in [1..Len(names) -> Range(names)] :
            /\ \A a, b \in 1..Len(names) : a < b => StrRank(f[a]) <= StrRank(f[b])
            /\ \A x \in Range(names) :
                  Cardinality({a \in 1..Len(names) : f[a] = x})
                      = Cardinality({a \in 1..Len(names) : names[a] = x})

\* get_valid_attr(df) on a Year column of any cells
get_valid_attr_any(df) ==
    IF get_year_range_any(df).exc # ""
    THEN [ret |-> None, exc |-> get_year_range_any(df).exc]
    ELSE [ret |-> Some(<<get_all_regions(df), Val(get_year_range_any(df).ret)>>),
          exc |-> ""]

\* get_metadata(df)
get_metadata(df) ==
    IF get_year_range_any(df).exc # ""
    THEN [ret |-> None, exc |-> get_year_range_any(df).exc]
    ELSE [ret |-> Some([regions |-> sorted(get_all_regions(df)),
                        countries |-> sorted(get_all_countries(df)),
                        year_range |-> Val(get_year_range_any(df).ret)]),
          exc |-> ""]


---------------------------------------------------------------------------
(* The metadata extractor as a state machine: one table, one call *)

MetaCols == {"Continent", "Country Name", "Year"}
RegionCells == {NaN, "europe", "EUROPE", "asia"}
CountryCells == {NaN, "germany", "JAPAN"}
YearCells ==
    {IntCell(y) : y \in DataYears}
        \cup {NaNCell, InfCell, StrCell("2001"), StrCell("n/a"), StrCell("inf")}

\* the rows of a table with the columns cs: the names vary beside one year,
\* or the Year cell varies beside one region and country
MetaRows(cs) ==
    {[c \in cs |-> CASE c = "Continent" -> a
                     [] c = "Country Name" -> b
                     [] OTHER -> IntCell(2000)] :
        a \in RegionCells, b \in CountryCells}
    \cup
    {[c \in cs |-> CASE c = "Continent" -> "europe"
                     [] c = "Country Name" -> "germany"
                     [] OTHER -> y] : y \in YearCells}

InitMetadata ==
    /\ SanitizerIdle
    /\ wide = NoTable
    /\ \E cs \in SUBSET MetaCols : \E n \in 0..MaxRows :
          long \in [1..n -> MetaRows(cs)]
    /\ query = NoQuery
    /\ engine = <<>>

\* the record of a call that returned a list
ReturnedList(fn, ret) ==
    [fn |-> fn, args |-> <<>>, ret |-> Some(ret), exc |-> ""]

\* the record of a call that returned or raised
Outcome(fn, r) == [fn |-> fn, args |-> <<>>, ret |-> r.ret, exc |-> r.exc]

GetAllRegions ==
    /\ engine = <<>>
    /\ engine' = <<ReturnedList("get_all_regions", get_all_regions(long))>>
    /\ UNCHANGED <<config, regions, year_range, calls, wide, long, query>>

GetAllCountries ==
    /\ engine = <<>>
    /\ engine' = <<ReturnedList("get_all_countries", get_all_countries(long))>>
    /\ UNCHANGED <<config, regions, year_range, calls, wide, long, query>>

GetYearRange ==
    /\ engine = <<>>
    /\ engine' = <<Outcome("get_year_range", get_year_range_any(long))>>
    /\ UNCHANGED <<config, regions, year_range, calls, wide, long, query>>

GetValidAttr ==
    /\ engine = <<>>
    /\ engine' = <<Outcome("get_valid_attr", get_valid_attr_any(long))>>
    /\ UNCHANGED <<config, regions, year_range, calls, wide, long, query>>

GetMetadata ==
    /\ engine = <<>>
    /\ engine' = <<Outcome("get_metadata", get_metadata(long))>>
    /\ UNCHANGED <<config, regions, year_range, calls, wide, long, query>>

NextMetadata ==
    \/ GetAllRegions
    \/ GetAllCountries
    \/ GetYearRange
    \/ GetValidAttr
    \/ GetMetadata

SpecMetadata == InitMetadata /\ [][NextMetadata]_vars

\* the integers that the cells of the Year column stand for: integers
\* themselves and strings of digits; NaN, inf and other strings stand for none
ParsedYears(df) ==
    LET column == extract_column(df, "Year")
    IN  {column[i].num : i \in {j \in 1..Len(column) : column[j].kind = "int"}}
        \cup {Val(ParseInt(column[i].text)) :
                i \in {j \in 1..Len(column) :
                         /\ column[j].kind = "str"
                         /\ ~IsNone(ParseInt(column[j].text))}}

\* the Year column holds a value that parses as a number
HasParsable(df) ==
    \E i \in 1..Len(extract_column(df, "Year")) :
        to_numeric(extract_column(df, "Year")[i]).kind # "nan"

\* C22: for every table get_year_range returns the pair (smallest, largest)
\* of the Year values that parse as numbers, missing and unparsable entries
\* ignored, returns exactly (1960, 2024) when the Year column is absent,
\* empty or without a parsable value, and never raises
C22_YearRange ==
    \A i \in StageCalls("get_year_range") :
        /\ Ok(engine[i])
        /\ ~HasParsable(long) => Val(engine[i].ret) = <<1960, 2024>>
        /\ (HasParsable(long) /\ ParsedYears(long) # {}) =>
              \E lo, hi \in ParsedYears(long) :
                  /\ \A y \in ParsedYears(long) : lo <= y /\ y <= hi
                  /\ Ok(engine[i]) => Val(engine[i].ret) = <<lo, hi>>


\* the title-cased names of a column, missing values left out
NamesOf(df, column) ==
    {Title(x) : x \in Range(extract_column(df, column)) \ {NaN}}

\* the row in which a title-cased name first appears in a column
FirstRow(df, column, name) ==
    CHOOSE i \in 1..Len(df) :
        /\ Title(df[i][column]) = name
        /\ \A j \in 1..(i - 1) : Title(df[j][column]) # name

\* names holds each title-cased name of the column exactly once and no
\* missing value
EachOnce(names, df, column) ==
    /\ Range(names) = NamesOf(df, column)
    /\ \A a, b \in 1..Len(names) : a # b => names[a] # names[b]
    /\ NaN \notin Range(names)
    /\ Title(NaN) \notin Range(names)

InOrderOfAppearance(names, df, column) ==
    \A a, b \in 1..Len(names) :
        a < b => FirstRow(df, column, names[a]) < FirstRow(df, column, names[b])

IsSortedList(names) ==
    \A a, b \in 1..Len(names) : a < b => StrRank(names[a]) < StrRank(names[b])

\* the (list, column) pairs that the calls of the extractor have returned
NameLists ==
    {<<Val(engine[i].ret), "Continent">> : i \in StageCalls("get_all_regions")}
    \cup {<<Val(engine[i].ret), "Country Name">> :
            i \in StageCalls("get_all_countries")}
    \cup {<<Val(engine[i].ret)[1], "Continent">> :
            i \in {j \in StageCalls("get_valid_attr") : Ok(engine[j])}}

MetadataLists ==
    {<<Val(engine[i].ret).regions, "Continent">> :
        i \in {j \in StageCalls("get_metadata") : Ok(engine[j])}}
    \cup {<<Val(engine[i].ret).countries, "Country Name">> :
            i \in {j \in StageCalls("get_metadata") : Ok(engine[j])}}

\* C23 as stated: the region list and the country list of get_all_regions,
\* get_all_countries, get_valid_attr and get_metadata hold each title-cased
\* name exactly once, hold no missing value and are sorted; a missing column
\* yields an empty list
C23_NamesSorted ==
    \A p \in NameLists \cup MetadataLists :
        /\ EachOnce(p[1], long, p[2])
        /\ IsSortedList(p[1])
        /\ (long # <<>> /\ p[2] \notin DOMAIN long[1]) => p[1] = <<>>

\* C23, amended: every list holds each title-cased name exactly once and no
\* missing value, and a missing column yields an empty list; the lists of
\* get_metadata are sorted, those of get_all_regions, get_all_countries and
\* get_valid_attr are in the order in which the names first appear in the
\* table
C23_Names ==
    /\ \A p \in NameLists \cup MetadataLists :
          /\ EachOnce(p[1], long, p[2])
          /\ (long # <<>> /\ p[2] \notin DOMAIN long[1]) => p[1] = <<>>
    /\ \A p \in MetadataLists : IsSortedList(p[1])
    /\ \A p \in NameLists : InOrderOfAppearance(p[1], long, p[2])

\* get_all_regions was called on a table whose Continent column holds two
\* spellings of one name, or a name and a missing value, and returned the
\* name once
C23_Witness ==
    \E i \in StageCalls("get_all_regions") :
        /\ Len(long) > 1
        /\ "Continent" \in DOMAIN long[1]
        /\ long[1]["Continent"] # long[2]["Continent"]
        /\ Len(Val(engine[i].ret)) = 1


---------------------------------------------------------------------------
(* Request filter resolution: src/core/core_api.py, src/plugins/outputs.py *)

FilterFields == {"region", "country", "startYear", "endYear", "operation"}

\* FilterBody parsed from the JSON object of a request: a key that the
\* object lacks takes the field's default, None
FilterBody(json) ==
    [f \in FilterFields |-> IF f \in DOMAIN json THEN json[f] ELSE None]

ResolvedFilters(region, country, startYear, endYear, operation) ==
    [region |-> region, country |-> country, startYear |-> startYear,
     endYear |-> endYear, operation |-> operation]

ALL_REGIONS == "__ALL__"

\* a resolution that takes every field from the body, None included
_resolve_body_only(body, defaults) ==
    IF IsNone(body) THEN defaults
    ELSE ResolvedFilters(Val(body).region, Val(body).country,
                         Val(body).startYear, Val(body).endYear,
                         Val(body).operation)

\* _resolve(body, defaults); body is None or Some(FilterBody)
_resolve(body, defaults) ==
    IF IsNone(body)
    THEN ResolvedFilters(defaults.region, defaults.country, defaults.startYear,
                         defaults.endYear, defaults.operation)
    ELSE LET b == Val(body)
         IN  ResolvedFilters(
                 IF b.region = Some(ALL_REGIONS) THEN None
                 ELSE IF ~IsNone(b.region) THEN b.region ELSE defaults.region,
                 IF ~IsNone(b.country) THEN b.country ELSE defaults.country,
                 IF ~IsNone(b.startYear) THEN b.startYear ELSE defaults.startYear,
                 IF ~IsNone(b.endYear) THEN b.endYear ELSE defaults.endYear,
                 IF ~IsNone(b.operation) THEN b.operation ELSE defaults.operation)

\* CoreAPIClient._post: `filters or {}`, then the keys whose value is None
\* are stripped; the result is the JSON object that is sent
_post(filters) ==
    LET body == IF IsNone(filters) THEN <<>> ELSE Val(filters)
        kept == {k \in DOMAIN body : ~IsNone(body[k])}
    IN  [k \in kept |-> body[k]]

\* the defaults a server can hold and the values a request can carry
ResolveDefaults ==
    {QueryConfig(r, c, s, e, o) :
        r \in {None, Some("Europe")}, c \in {None, Some("Japan")},
        s \in {None, Some(2000)}, e \in {None, Some(2000 + MaxYearSpan)},
        o \in {None, Some("sum")}}

FieldValues(f) ==
    CASE f = "region" -> {None, Some(ALL_REGIONS), Some("Asia")}
      [] f = "country" -> {None, Some("Germany")}
      [] f = "startYear" -> {None, Some(2001)}
      [] f = "endYear" -> {None, Some(2001)}
      [] f = "operation" -> {None, Some("avg")}

\* a filter dictionary (a JSON object) with the given keys
FilterDict(keys, r, c, s, e, o) ==
    [k \in keys |->
        CASE k = "region" -> r
          [] k = "country" -> c
          [] k = "startYear" -> s
          [] k = "endYear" -> e
          [] k = "operation" -> o]

InitResolve ==
    /\ config = NoQuery
    /\ regions = <<>>
    /\ year_range = <<2000, 2000 + MaxYearSpan>>
    /\ calls = <<>>
    /\ wide = NoTable
    /\ long = <<>>
    /\ query \in ResolveDefaults
    /\ engine = <<>>

\* a request without a body
RequestNoBody ==
    /\ engine = <<>>
    /\ engine' = <<[fn |-> "_resolve", args |-> <<None>>,
                    ret |-> Some(_resolve(None, query)), exc |-> ""]>>
    /\ UNCHANGED <<config, regions, year_range, calls, wide, long, query>>

\* a request whose body is any JSON object
RequestBody ==
    /\ engine = <<>>
    /\ \E keys \in SUBSET FilterFields :
       \E r \in FieldValues("region"), c \in FieldValues("country"),
          s \in FieldValues("startYear"), e \in FieldValues("endYear"),
          o \in FieldValues("operation") :
          LET body == Some(FilterBody(FilterDict(keys, r, c, s, e, o)))
          IN  engine' = <<[fn |-> "_resolve", args |-> <<body>>,
                           ret |-> Some(_resolve(body, query)), exc |-> ""]>>
    /\ UNCHANGED <<config, regions, year_range, calls, wide, long, query>>

\* a request sent by CoreAPIClient._post(path, filters)
ClientPost ==
    /\ engine = <<>>
    /\ \E keys \in SUBSET FilterFields :
       \E r \in FieldValues("region"), c \in FieldValues("country"),
          s \in FieldValues("startYear"), e \in FieldValues("endYear"),
          o \in FieldValues("operation") :
       \E filters \in {None, Some(FilterDict(keys, r, c, s, e, o))} :
          LET body == Some(FilterBody(_post(filters)))
          IN  engine' = <<[fn |-> "_post", args |-> <<body>>,
                           ret |-> Some(_resolve(body, query)), exc |-> ""]>>
    /\ UNCHANGED <<config, regions, year_range, calls, wide, long, query>>

NextResolve == RequestNoBody \/ RequestBody \/ ClientPost

SpecResolve == InitResolve /\ [][NextResolve]_vars

ResolveCalls == {i \in 1..Len(engine) : engine[i].fn \in {"_resolve", "_post"}}

\* C24: with no body the resolved filters equal the server defaults; with a
\* body, country, startYear, endYear and operation are the body's value when
\* it is not None and the default otherwise, and region is None when the
\* body's region is "__ALL__", else the body's region when not None, else
\* the default; so no body removes a default country, year or operation
\* constraint, and only the region can be cleared
C24_Resolve ==
    \A i \in ResolveCalls :
        LET body == engine[i].args[1]
            ret == Val(engine[i].ret)
        IN  /\ IsNone(body) => \A f \in FilterFields : ret[f] = query[f]
            /\ ~IsNone(body) =>
                  /\ \A f \in FilterFields \ {"region"} :
                        ret[f] = IF Val(body)[f] # None THEN Val(body)[f]
                                 ELSE query[f]
                  /\ ret.region = IF Val(body).region = Some("__ALL__") THEN None
                                  ELSE IF Val(body).region # None
                                       THEN Val(body).region
                                       ELSE query.region
            /\ \A f \in FilterFields \ {"region"} :
                  query[f] # None => ret[f] # None
            /\ (query.region # None /\ ret.region = None)
                  => (~IsNone(body) /\ Val(body).region = Some("__ALL__"))

\* a body that names only "__ALL__" met defaults that constrain every field:
\* the region was cleared and every other default kept
C24_Witness ==
    \E i \in ResolveCalls :
        /\ \A f \in FilterFields : query[f] # None
        /\ ~IsNone(engine[i].args[1])
        /\ Val(engine[i].args[1]).region = Some("__ALL__")
        /\ \A f \in FilterFields \ {"region"} : Val(engine[i].args[1])[f] = None
        /\ Val(engine[i].ret).region = None
        /\ \A f \in FilterFields \ {"region"} : Val(engine[i].ret)[f] = query[f]


---------------------------------------------------------------------------
(* Request handlers running concurrently on one base table:               *)
(* src/core/core_api.py run and _aggregate_helper, src/core/engine.py     *)
(* run_pipeline.  The handlers are plain functions, which the server runs *)
(* on worker threads; a step of a handler is one stage of run_pipeline.   *)

MaxHandlers == 2

\* the base table after transform(df) has read it, had the stage dropped
\* the rows with a missing first year in place
AfterTransformInPlace(df) ==
    [columns |-> df.columns,
     rows |-> SelectSeq(df.rows, LAMBDA r : ~IsNone(r[df.columns[Len(df.columns)]]))]

\* the base table after transform(df) has read it: melt and assign build new
\* frames and write nothing to df
AfterTransform(df) == df

\* the base tables: Germany and Japan over two years, any cell missing
IsSharedTable(df) ==
    \E g, j \in WideRows(IdCols \o <<"2000", "2001">>) :
        /\ g["Country Name"] = "Germany"
        /\ j["Country Name"] = "Japan"
        /\ df = [columns |-> IdCols \o <<"2000", "2001">>, rows |-> <<g, j>>]

Endpoints == {"/run", "/aggregate/country"}

\* the resolved filters of the requests
SharedFilters ==
    {NoQuery, QueryConfig(Some("europe"), None, Some(2001), None, Some("sum"))}

InitConcurrent ==
    /\ SanitizerIdle
    /\ IsSharedTable(wide)
    /\ long = <<>>
    /\ query = NoQuery
    /\ engine = <<>>

\* a request arrives and a handler starts: run_pipeline(base_df, filters,
\* inLongFormat=True) is about to run its first stage
Arrive ==
    /\ Len(engine) < MaxHandlers
    /\ \E endpoint \in Endpoints, filters \in SharedFilters :
          engine' = Append(engine,
                           [fn |-> endpoint, args |-> <<filters>>,
                            pc |-> "transform", frame |-> <<>>,
                            before |-> wide, after |-> wide,
                            overlapped |-> FALSE,
                            ret |-> None, exc |-> ""])
    /\ UNCHANGED <<config, regions, year_range, calls, wide, long, query>>

\* df.pipe(transform) on the shared base table
StepTransform ==
    /\ \E i \in 1..Len(engine) :
          /\ engine[i].pc = "transform"
          /\ engine' = [engine EXCEPT ![i] =
                          [@ EXCEPT !.pc = "region",
                                    !.frame = Val(transform(wide).ret),
                                    !.overlapped =
                                        \E j \in 1..Len(engine) :
                                            engine[j].pc \notin {"transform", "done"}]]
    /\ wide' = AfterTransform(wide)
    /\ UNCHANGED <<config, regions, year_range, calls, long, query>>

\* .pipe(_filter_by_region, filters.region)
StepFilterByRegion ==
    /\ \E i \in 1..Len(engine) :
          /\ engine[i].pc = "region"
          /\ engine' = [engine EXCEPT ![i] =
                          [@ EXCEPT !.pc = "country",
                                    !.frame = _filter_by_region(@, engine[i].args[1].region)]]
    /\ UNCHANGED <<config, regions, year_range, calls, wide, long, query>>

\* .pipe(_filter_by_country, filters.country)
StepFilterByCountry ==
    /\ \E i \in 1..Len(engine) :
          /\ engine[i].pc = "country"
          /\ engine' = [engine EXCEPT ![i] =
                          [@ EXCEPT !.pc = "year",
                                    !.frame = _filter_by_country(@, engine[i].args[1].country)]]
    /\ UNCHANGED <<config, regions, year_range, calls, wide, long, query>>

\* .pipe(_filter_by_year, filters.startYear, filters.endYear)
StepFilterByYear ==
    /\ \E i \in 1..Len(engine) :
          /\ engine[i].pc = "year"
          /\ engine' = [engine EXCEPT ![i] =
                          [@ EXCEPT !.pc = "dropna",
                                    !.frame = _filter_by_year(@, engine[i].args[1].startYear,
                                                              engine[i].args[1].endYear)]]
    /\ UNCHANGED <<config, regions, year_range, calls, wide, long, query>>

\* .dropna(subset=["Value"])
StepDropNa ==
    /\ \E i \in 1..Len(engine) :
          /\ engine[i].pc = "dropna"
          /\ engine' = [engine EXCEPT ![i] =
                          [@ EXCEPT !.pc = "return", !.frame = DropNaValue(@)]]
    /\ UNCHANGED <<config, regions, year_range, calls, wide, long, query>>

\* /run: inLongFormat is True, the filtered long table is the response
RespondRun ==
    /\ \E i \in 1..Len(engine) :
          /\ engine[i].pc = "return"
          /\ engine[i].fn = "/run"
          /\ engine' = [engine EXCEPT ![i] =
                          [@ EXCEPT !.pc = "done", !.after = wide,
                                    !.ret = Some(engine[i].frame)]]
    /\ UNCHANGED <<config, regions, year_range, calls, wide, long, query>>

\* /aggregate/country: pipeline_func(df, filters.operation or "avg")
RespondAggregate ==
    /\ \E i \in 1..Len(engine) :
          /\ engine[i].pc = "return"
          /\ engine[i].fn = "/aggregate/country"
          /\ engine' = [engine EXCEPT ![i] =
                          [@ EXCEPT !.pc = "done", !.after = wide,
                                    !.ret = Some(aggregate_by_country(
                                        engine[i].frame,
                                        IF Falsy(engine[i].args[1].operation)
                                        THEN "avg"
                                        ELSE Val(engine[i].args[1].operation)))]]
    /\ UNCHANGED <<config, regions, year_range, calls, wide, long, query>>

NextConcurrent ==
    \/ Arrive
    \/ StepTransform
    \/ StepFilterByRegion
    \/ StepFilterByCountry
    \/ StepFilterByYear
    \/ StepDropNa
    \/ RespondRun
    \/ RespondAggregate

SpecConcurrent == InitConcurrent /\ [][NextConcurrent]_vars

\* what the call returns when it runs alone on the base table df
Alone(fn, df, filters) ==
    IF fn = "/run" THEN run_pipeline(df, filters, TRUE).ret
    ELSE _aggregate_helper("aggregate_by_country", df, filters).ret

Finished == {i \in 1..Len(engine) : engine[i].pc = "done"}

\* C25: for any interleaving of run_pipeline / aggregate calls of several
\* request handlers that share one base table, each call returns exactly
\* what it returns when run alone, and the shared base table is the same
\* before and after
C25_Independent ==
    /\ \A i \in Finished :
          /\ engine[i].ret = Alone(engine[i].fn, engine[i].before, engine[i].args[1])
          /\ engine[i].after = engine[i].before
    /\ \A i \in 1..Len(engine) : engine[i].before = wide

\* two calls have finished, the second having run its transform stage while
\* the first was between two stages, on a base table with a missing cell
C25_Witness ==
    /\ Len(engine) = 2
    /\ Finished = {1, 2}
    /\ engine[1].fn # engine[2].fn
    /\ engine[1].args # engine[2].args
    /\ engine[2].overlapped
    /\ \E r \in 1..Len(wide.rows) : IsNone(wide.rows[r]["2001"])
    /\ engine[1].ret # Some(<<>>)
    /\ engine[2].ret # Some(<<>>)


---------------------------------------------------------------------------
(* Data cleaning: src/core/data_cleaning.py.  A raw table is a record of  *)
(* its column names and its rows; the cells of the year columns are the   *)
(* cells of the metadata section (numbers, NaN, strings).                 *)

START_YEAR == 1960
END_YEAR == 2024

\* the years whose column name the model can spell
SpelledYears == (1999..2005) \cup {2025}

\* _year_columns(df, start_year, end_year): the names str(y), y from
\* start_year to end_year in increasing order, that are columns of df
_year_columns(df, start_year, end_year) ==
    LET years == {y \in SpelledYears :
                     /\ start_year <= y /\ y <= end_year
                     /\ YearColumn(y) \in Range(df.columns)}
    IN  [k \in 1..Cardinality(years) |-> YearColumn(Sorted(years)[k])]

\* df.assign(**{col: f(row, col)}) over the year columns
AssignYears(df, f(_, _)) ==
    LET year_cols == Range(_year_columns(df, START_YEAR, END_YEAR))
    IN  [columns |-> df.columns,
         rows |-> [i \in 1..Len(df.rows) |->
                     [c \in DOMAIN df.rows[i] |->
                         IF c \in year_cols THEN f(df.rows[i], c)
                         ELSE df.rows[i][c]]]]

\* convert_years_to_numeric(df)
convert_years_to_numeric(df) ==
    AssignYears(df, LAMBDA row, col : to_numeric(row[col]))

\* df[year_cols].fillna(method="ffill", axis=1)[col] for one row: the last
\* value that is not NaN at or before col, in the order of year_cols
FFill(row, year_cols, k) ==
    LET valid == {j \in 1..k : row[year_cols[j]].kind # "nan"}
    IN  IF valid = {} THEN NaNCell
        ELSE row[year_cols[CHOOSE j \in valid : \A m \in valid : m <= j]]

\* the same with method="bfill": the first value that is not NaN at or
\* after col
BFill(row, year_cols, k) ==
    LET valid == {j \in k..Len(year_cols) : row[year_cols[j]].kind # "nan"}
    IN  IF valid = {} THEN NaNCell
        ELSE row[year_cols[CHOOSE j \in valid : \A m \in valid : j <= m]]

\* fill_missing_years(df, method)
fill_missing_years(df, method) ==
    LET year_cols == _year_columns(df, START_YEAR, END_YEAR)
        pos(col) == CHOOSE k \in 1..Len(year_cols) : year_cols[k] = col
    IN  CASE method = "zero" ->
                AssignYears(df, LAMBDA row, col :
                    IF row[col].kind = "nan" THEN IntCell(0) ELSE row[col])
          [] method = "ffill" ->
                AssignYears(df, LAMBDA row, col : FFill(row, year_cols, pos(col)))
          [] method = "bfill" ->
                AssignYears(df, LAMBDA row, col : BFill(row, year_cols, pos(col)))
          [] OTHER -> AssignYears(df, LAMBDA row, col : row[col])

\* x >= 0 on a number that is not NaN
NonNegative(x) == x.kind = "inf" \/ x.num >= 0

\* remove_invalid_values(df): x if pd.isna(x) or x >= 0 else None
remove_invalid_values(df) ==
    AssignYears(df, LAMBDA row, col :
        IF row[col].kind = "nan" \/ NonNegative(row[col]) THEN row[col]
        ELSE NaNCell)

DuplicateSubset == <<"Country Name", "Indicator Code">>
PairOf(row) == <<row["Country Name"], row["Indicator Code"]>>

\* drop_duplicates keeping the last row of each pair
drop_duplicates_keep_last(df) ==
    [columns |-> df.columns,
     rows |-> LET kept == {i \in 1..Len(df.rows) :
                             \A j \in (i + 1)..Len(df.rows) :
                                 PairOf(df.rows[j]) # PairOf(df.rows[i])}
              IN  [k \in 1..Cardinality(kept) |-> df.rows[Sorted(kept)[k]]]]

\* drop_duplicates(df): df.drop_duplicates(subset=[...]), keep="first"
drop_duplicates(df) ==
    [columns |-> df.columns,
     rows |-> LET kept == {i \in 1..Len(df.rows) :
                             \A j \in 1..(i - 1) :
                                 PairOf(df.rows[j]) # PairOf(df.rows[i])}
              IN  [k \in 1..Cardinality(kept) |-> df.rows[Sorted(kept)[k]]]]

\* clean_gdp_data(df, fill_method)
clean_gdp_data(df, fill_method) ==
    drop_duplicates(
        remove_invalid_values(
            fill_missing_years(convert_years_to_numeric(df), fill_method)))


\* raw tables: the two key columns and two year columns, in or out of year
\* order, inside or outside START_YEAR..END_YEAR
RawYearLayouts == {<<"2000", "2001">>, <<"2001", "2000">>, <<"2000", "2025">>}
RawCells == {NaNCell, IntCell(1), StrCell("-100")}
RawPairs == {<<"Germany", "NY.GDP">>, <<"Japan", "NY.GDP">>}
RawRows(ys) ==
    {[c \in Range(DuplicateSubset \o ys) |->
        CASE c = "Country Name" -> p[1]
          [] c = "Indicator Code" -> p[2]
          [] c = ys[1] -> a
          [] OTHER -> b] : p \in RawPairs, a \in RawCells, b \in RawCells}
IsRawTable(df) ==
    \E ys \in RawYearLayouts : \E n \in 0..MaxRows :
        \E rows \in [1..n -> RawRows(ys)] :
            df = [columns |-> DuplicateSubset \o ys, rows |-> rows]

FillMethods == {"ffill", "bfill", "zero", "none"}

InitClean ==
    /\ SanitizerIdle
    /\ IsRawTable(wide)
    /\ long = <<>>
    /\ query = NoQuery
    /\ engine = <<>>

CleanGdpData ==
    /\ engine = <<>>
    /\ \E fill_method \in FillMethods :
          engine' = <<Returned("clean_gdp_data", <<fill_method>>,
                               clean_gdp_data(wide, fill_method))>>
    /\ UNCHANGED <<config, regions, year_range, calls, wide, long, query>>

\* the cleaning steps called one by one, as the module documents
CleanStepByStep ==
    /\ engine = <<>>
    /\ \E fill_method \in FillMethods :
          engine' = <<Returned("steps", <<fill_method>>,
                               drop_duplicates(remove_invalid_values(
                                   fill_missing_years(
                                       convert_years_to_numeric(wide),
                                       fill_method))))>>
    /\ UNCHANGED <<config, regions, year_range, calls, wide, long, query>>

NextClean == CleanGdpData \/ CleanStepByStep

SpecClean == InitClean /\ [][NextClean]_vars

CleanCalls == {i \in 1..Len(engine) : engine[i].fn \in {"clean_gdp_data", "steps"}}

\* the cell holds a negative number
IsNegative(cell) == to_numeric(cell).kind = "int" /\ to_numeric(cell).num < 0

NoDuplicatePair(df) ==
    \A a, b \in 1..Len(df.rows) : a # b => PairOf(df.rows[a]) # PairOf(df.rows[b])

\* every row of out is the first row of df with its pair: the rows of out
\* follow, in order, the first occurrences in df, and agree with them on
\* every column that cleaning does not sanitize and, where the year cell of
\* the first occurrence is a number that is not negative, on that cell
FirstKept(out, df) ==
    LET first == {i \in 1..Len(df.rows) :
                     \A j \in 1..(i - 1) : PairOf(df.rows[j]) # PairOf(df.rows[i])}
    IN  /\ Len(out.rows) = Cardinality(first)
        /\ \A k \in 1..Len(out.rows) :
              LET src == df.rows[Sorted(first)[k]]
              IN  \A c \in DOMAIN src :
                     IF c \in Range(_year_columns(df, 1960, 2024))
                     THEN (to_numeric(src[c]).kind = "int" /\ ~IsNegative(src[c]))
                              => out.rows[k][c] = to_numeric(src[c])
                     ELSE out.rows[k][c] = src[c]

---------------------------------------------------------------------------
(* Start-up and the core API server: src/main.py main,                    *)
(* src/core/core_api.py create_server.  `wide` is base_df, the cleaned    *)
(* wide table; `config` is query_config.json as it is on disk; `query` is *)
(* default_filters, `regions` and `year_range` are the bounds the default *)
(* filters were sanitized against; `engine` is the log of create_server   *)
(* and of the requests served since.                                      *)

\* the metadata functions read a DataFrame by its columns: for a table held
\* as columns and rows, the rows carry the columns
AsFrame(df) == df.rows

\* get_query_config(df), raw_config being what load_query_config reads
get_query_config(raw_config, df) ==
    LET attr == get_valid_attr(AsFrame(df))
    IN  _sanatize_query_config(raw_config, attr[1], attr[2])

_filters_to_dict(f) == [k \in FilterFields |-> f[k]]

\* df.to_dict(orient="records"): the rows as a list of dictionaries, which
\* is how a long table is held here
_to_response(df) == df

\* reload_config storing the filters it loaded as the new defaults
DefaultsAfterReloadStored(default_filters, new_filters) == new_filters

\* default_filters after reload_config: new_filters is returned and
\* assigned to nothing
DefaultsAfterReload(default_filters, new_filters) == default_filters

\* the pipeline function of an /aggregate endpoint
AggregateEndpoints ==
    {"/aggregate/region", "/aggregate/country", "/aggregate/country-code",
     "/aggregate/all"}
PipelineFuncOf(endpoint) ==
    CASE endpoint = "/aggregate/region" -> "aggregate_by_region"
      [] endpoint = "/aggregate/country" -> "aggregate_by_country"
      [] endpoint = "/aggregate/country-code" -> "aggregate_by_country_code"
      [] endpoint = "/aggregate/all" -> "aggregate_all"

\* cleaned datasets: Germany and Japan over one or two year columns
ServerYearLayouts == {<<"2000">>, <<"2000", "2001">>, <<"2001", "2002">>}
IsServerTable(df) ==
    \E ys \in ServerYearLayouts :
        \E g, j \in WideRows(IdCols \o ys) :
            /\ g["Country Name"] = "Germany"
            /\ j["Country Name"] = "Japan"
            /\ \A c \in Range(ys) : ~IsNone(g[c])
            /\ df = [columns |-> IdCols \o ys, rows |-> <<g, j>>]

\* what query_config.json can hold
DiskConfigs ==
    {NoQuery,
     QueryConfig(Some("europe"), None, Some(1999), Some(2003), Some("SUM")),
     QueryConfig(None, Some("Japan"), Some(2001), None, Some("avg"))}

InitServer ==
    /\ config \in DiskConfigs
    /\ regions = <<>>
    /\ year_range = <<0, 0>>
    /\ calls = <<>>
    /\ IsServerTable(wide)
    /\ long = <<>>
    /\ query = NoQuery
    /\ engine = <<>>

\* main: default_filters = get_query_config(base_df), then
\* create_server(base_df, default_filters, config_loader), which computes
\* meta = get_metadata(base_df)
CreateServer ==
    /\ engine = <<>>
    /\ regions' = get_valid_attr(AsFrame(wide))[1]
    /\ year_range' = get_valid_attr(AsFrame(wide))[2]
    /\ query' = Val(get_query_config(config, wide).ret)
    /\ \E config_loader \in BOOLEAN :
          engine' = <<[fn |-> "create_server",
                       args |-> <<Val(get_query_config(config, wide).ret),
                                  config_loader>>,
                       ret |-> get_metadata(AsFrame(wide)).ret,
                       exc |-> get_metadata(AsFrame(wide)).exc]>>
    /\ UNCHANGED <<config, calls, wide, long>>

Serving == engine # <<>> /\ Len(engine) <= MaxCalls

\* query_config.json is edited while the server runs
EditConfigFile ==
    /\ Serving
    /\ config' \in DiskConfigs \ {config}
    /\ UNCHANGED <<regions, year_range, calls, wide, long, query, engine>>

\* GET /metadata
GetMeta ==
    /\ Serving
    /\ engine' = Append(engine, [fn |-> "/metadata", args |-> <<>>,
                                 ret |-> engine[1].ret, exc |-> ""])
    /\ UNCHANGED <<config, regions, year_range, calls, wide, long, query>>

\* GET /config
GetConfig ==
    /\ Serving
    /\ engine' = Append(engine, [fn |-> "/config", args |-> <<>>,
                                 ret |-> Some(_filters_to_dict(query)),
                                 exc |-> ""])
    /\ UNCHANGED <<config, regions, year_range, calls, wide, long, query>>

\* POST /config/reload
ReloadConfig ==
    /\ Serving
    /\ IF ~engine[1].args[2]
       THEN /\ engine' = Append(engine, [fn |-> "/config/reload",
                                         args |-> <<config>>, ret |-> None,
                                         exc |-> "HTTPException 501"])
            /\ query' = query
       ELSE LET new_filters == Val(get_query_config(config, wide).ret)
            IN  /\ engine' = Append(engine,
                                    [fn |-> "/config/reload",
                                     args |-> <<config>>,
                                     ret |-> Some(_filters_to_dict(new_filters)),
                                     exc |-> ""])
                /\ query' = DefaultsAfterReload(query, new_filters)
    /\ UNCHANGED <<config, regions, year_range, calls, wide, long>>

\* POST /run without a body
RunNoBody ==
    /\ Serving
    /\ LET filters == _resolve(None, query)
           result == run_pipeline(wide, filters, TRUE)
       IN  engine' = Append(engine, [fn |-> "/run", args |-> <<None>>,
                                     ret |-> Some(_to_response(Val(result.ret))),
                                     exc |-> ""])
    /\ UNCHANGED <<config, regions, year_range, calls, wide, long, query>>

\* POST /aggregate/... without a body
AggregateNoBody ==
    /\ Serving
    /\ \E endpoint \in AggregateEndpoints :
          LET r == _aggregate_helper(PipelineFuncOf(endpoint), wide,
                                     _resolve(None, query))
          IN  engine' = Append(engine, [fn |-> endpoint, args |-> <<None>>,
                                        ret |-> Some(_to_response(Val(r.ret))),
                                        exc |-> ""])
    /\ UNCHANGED <<config, regions, year_range, calls, wide, long, query>>

NextServer ==
    \/ CreateServer
    \/ EditConfigFile
    \/ GetMeta
    \/ GetConfig
    \/ ReloadConfig
    \/ RunNoBody
    \/ AggregateNoBody

SpecServer == InitServer /\ [][NextServer]_vars

\* the years that name a column of the dataset
YearsPresent(df) ==
    {Val(ParseInt(c)) : c \in {d \in Range(df.columns) : IsDigit(d)}}

\* C27: at server start-up the bounds are those of the loaded dataset: the
\* year range against which the default query filters are sanitized and the
\* year_range served by /metadata equal the smallest and largest year
\* present in the loaded dataset
C27_StartupBounds ==
    engine # <<>> =>
        /\ \A y \in YearsPresent(wide) : year_range[1] <= y /\ y <= year_range[2]
        /\ year_range[1] \in YearsPresent(wide)
        /\ year_range[2] \in YearsPresent(wide)
        /\ \A i \in StageCalls("/metadata") :
              Val(engine[i].ret).year_range = year_range


\* the filters given to create_server
GivenFilters == engine[1].args[1]

\* C30: the default filters of the API server are fixed at creation: after
\* any sequence of requests, POST /config/reload included (which only
\* returns the loader's freshly loaded filters, or 501 when no loader is
\* registered), GET /config returns the filters given to create_server and
\* body-less /run and /aggregate requests are evaluated against them
C30_DefaultsFixed ==
    \A i \in 2..Len(engine) :
        /\ engine[i].fn = "/config"
              => engine[i].ret = Some(_filters_to_dict(GivenFilters))
        /\ engine[i].fn = "/run"
              => engine[i].ret = run_pipeline(wide, GivenFilters, TRUE).ret
        /\ engine[i].fn \in AggregateEndpoints
              => engine[i].ret = _aggregate_helper(PipelineFuncOf(engine[i].fn),
                                                   wide, GivenFilters).ret
        /\ engine[i].fn = "/config/reload"
              => IF engine[1].args[2]
                 THEN /\ Ok(engine[i])
                      /\ engine[i].ret
                           = Some(_filters_to_dict(
                                 Val(get_query_config(engine[i].args[1], wide).ret)))
                 ELSE engine[i].exc = "HTTPException 501" /\ engine[i].ret = None

\* the configuration file was edited, a reload returned filters that differ
\* from the defaults, and a later GET /config or body-less /run was served
C30_Witness ==
    /\ Len(engine) >= 3
    /\ engine[2].fn = "/config/reload"
    /\ Ok(engine[2])
    /\ engine[2].ret # Some(_filters_to_dict(GivenFilters))
    /\ engine[3].fn \in {"/config", "/run"}
    /\ engine[3].fn = "/run" => Val(engine[3].ret) # <<>>

\* the responses of the body-less /aggregate requests are all sums
\* (useSum) or all means of the rows the defaults select
Reduced(i, useSum) ==
    LET d == Val(run_pipeline(wide, GivenFilters, TRUE).ret)
        operation == IF useSum THEN "sum" ELSE "avg"
    IN  Val(engine[i].ret) = CallPipelineFunc(PipelineFuncOf(engine[i].fn), d, operation)

\* C29: every operation string that the sanitizer keeps (any letter-case
\* spelling of sum, avg or average, returned with its original spelling) is
\* reduced the same way by every aggregator: on the same rows the
\* single-dimension aggregators and aggregate_all either all sum or all
\* take the mean
C29_SameReduction ==
    \E useSum \in BOOLEAN :
        \A i \in 2..Len(engine) :
            engine[i].fn \in AggregateEndpoints => Reduced(i, useSum)


---------------------------------------------------------------------------
(* The start-up probe loop: src/main.py _probe, wait_for_servers.  Time   *)
(* is counted in sleep intervals.  `engine` holds the state of the call:  *)
(* its position, pending, deadline, the clock, the state of each server   *)
(* and the history of the probes.                                         *)

\* timeout of wait_for_servers, in sleep intervals
Timeout == 2
\* interval: one sleep
Interval == 1

\* probes = {"core": ..., "analytics": ...}, in the order of the dict
Labels == <<"core", "analytics">>

\* a server refuses connections (down), accepts them without answering
\* (accepting) or answers requests (up)
ServerStates == {"down", "accepting", "up"}

InitProbe ==
    /\ SanitizerIdle
    /\ wide = NoTable
    /\ long = <<>>
    /\ query = NoQuery
    /\ \E servers \in [Range(Labels) -> {"down", "up"}] :
          engine = [pc |-> "while", pending |-> Range(Labels),
                    deadline |-> Timeout, now |-> 0, servers |-> servers,
                    todo |-> <<>>, answered |-> {}, probed |-> <<>>,
                    removed |-> <<>>, named |-> {}]

\* a server thread makes progress
ServerProgress ==
    /\ engine.pc \notin {"returned", "raised"}
    /\ \E label \in Range(Labels) :
          /\ engine.servers[label] # "up"
          /\ engine' = [engine EXCEPT !.servers[label] =
                           IF @ = "down" THEN "accepting" ELSE "up"]
    /\ UNCHANGED <<config, regions, year_range, calls, wide, long, query>>

\* while pending: left when pending is empty
LoopExit ==
    /\ engine.pc = "while"
    /\ engine.pending = {}
    /\ engine' = [engine EXCEPT !.pc = "returned"]
    /\ UNCHANGED <<config, regions, year_range, calls, wide, long, query>>

\* if time.time() > deadline: raise RuntimeError(... list(pending))
RaiseTimeout ==
    /\ engine.pc = "while"
    /\ engine.pending # {}
    /\ engine.now > engine.deadline
    /\ engine' = [engine EXCEPT !.pc = "raised", !.named = engine.pending]
    /\ UNCHANGED <<config, regions, year_range, calls, wide, long, query>>

\* for label, url in list(pending.items()): the snapshot is taken
EnterFor ==
    /\ engine.pc = "while"
    /\ engine.pending # {}
    /\ engine.now <= engine.deadline
    /\ engine' = [engine EXCEPT !.pc = "for",
                     !.todo = SelectSeq(Labels, LAMBDA l : l \in engine.pending)]
    /\ UNCHANGED <<config, regions, year_range, calls, wide, long, query>>

\* _probe(url): httpx.get returned a response; pending.pop(label)
ProbeAnswered ==
    /\ engine.pc = "for"
    /\ engine.todo # <<>>
    /\ engine.servers[Head(engine.todo)] = "up"
    /\ \E d \in {0, Interval} :
          engine' = [engine EXCEPT !.todo = Tail(@),
                        !.now = @ + d,
                        !.probed = Append(@, <<Head(engine.todo),
                                            Head(engine.todo) \in Range(engine.removed)>>),
                        !.answered = @ \cup {Head(engine.todo)},
                        !.pending = @ \ {Head(engine.todo)},
                        !.removed = Append(@, Head(engine.todo))]
    /\ UNCHANGED <<config, regions, year_range, calls, wide, long, query>>

\* _probe(url): httpx.ConnectError, False; the label stays pending
ProbeRefused ==
    /\ engine.pc = "for"
    /\ engine.todo # <<>>
    /\ engine.servers[Head(engine.todo)] = "down"
    /\ \E d \in {0, Interval} :
          engine' = [engine EXCEPT !.todo = Tail(@),
                        !.now = @ + d,
                        !.probed = Append(@, <<Head(engine.todo),
                                            Head(engine.todo) \in Range(engine.removed)>>)]
    /\ UNCHANGED <<config, regions, year_range, calls, wide, long, query>>

\* _probe(url): the connection is accepted and no response comes within
\* timeout=2, httpx.ReadTimeout; `except Exception: return True`;
\* pending.pop(label)
ProbeTimedOut ==
    /\ engine.pc = "for"
    /\ engine.todo # <<>>
    /\ engine.servers[Head(engine.todo)] = "accepting"
    /\ engine' = [engine EXCEPT !.todo = Tail(@),
                     !.now = @ + Interval,
                     !.probed = Append(@, <<Head(engine.todo),
                                            Head(engine.todo) \in Range(engine.removed)>>),
                     !.pending = @ \ {Head(engine.todo)},
                     !.removed = Append(@, Head(engine.todo))]
    /\ UNCHANGED <<config, regions, year_range, calls, wide, long, query>>

\* the for loop is over: if pending: time.sleep(interval)
Sleep ==
    /\ engine.pc = "for"
    /\ engine.todo = <<>>
    /\ engine.pending # {}
    /\ engine' = [engine EXCEPT !.pc = "while", !.now = @ + Interval]
    /\ UNCHANGED <<config, regions, year_range, calls, wide, long, query>>

\* the for loop is over and nothing is pending
NoSleep ==
    /\ engine.pc = "for"
    /\ engine.todo = <<>>
    /\ engine.pending = {}
    /\ engine' = [engine EXCEPT !.pc = "while"]
    /\ UNCHANGED <<config, regions, year_range, calls, wide, long, query>>

WaitStep ==
    \/ LoopExit
    \/ RaiseTimeout
    \/ EnterFor
    \/ ProbeAnswered
    \/ ProbeRefused
    \/ ProbeTimedOut
    \/ Sleep
    \/ NoSleep

NextProbe == ServerProgress \/ WaitStep

SpecProbe == InitProbe /\ [][NextProbe]_vars

\* the thread that runs wait_for_servers keeps running; the servers owe
\* nothing
SpecProbeFair == SpecProbe /\ WF_vars(WaitStep)

\* C28: wait_for_servers returns normally only after every probe URL has
\* answered an HTTP request; a label is removed from the pending set once
\* and never probed again; past the deadline with a URL still pending it
\* raises RuntimeError naming the pending labels
C28_ProbeLoop ==
    /\ engine.pc = "returned" => engine.answered = Range(Labels)
    /\ \A a, b \in 1..Len(engine.removed) :
          a # b => engine.removed[a] # engine.removed[b]
    /\ \A k \in 1..Len(engine.probed) : ~engine.probed[k][2]
    /\ engine.pc = "raised" =>
          /\ engine.now > engine.deadline
          /\ engine.named = engine.pending
          /\ engine.named # {}

\* C28, termination: under advancing time wait_for_servers always ends, by
\* returning or by raising
C28_Terminates == <>(engine.pc \in {"returned", "raised"})

====
